---- MODULE Spec2Model ----
(***************************************************************************)
(* A model of bnuystore's distributed I/O plane:                           *)
(*   - the storage node's file-lock engine   (src/src/storage_node/mod.rs) *)
(*   - the front node's storage-node link                                  *)
(*                     (src/src/front_node/storage_node_connection.rs)     *)
(*   - the front node's connection map, get_file and upload_file           *)
(*                     (src/src/front_node/mod.rs) with the storage-node   *)
(*     server behind each link (src/src/storage_node_main.rs).             *)
(*   - the storage-node server's per-connection task                      *)
(*                     (src/src/storage_node_main.rs)                      *)
(*   - the wire codec (src/src/message.rs)                                 *)
(*   - SFTP path resolution, one SFTP session's handlers and its handles   *)
(*                     (src/src/front_node/sftp.rs)                        *)
(*   - the write side of a link (storage_node_connection.rs, message.rs)   *)
(*   - OwnedTask (src/src/owned_task.rs).                                  *)
(* Each component has its own specification (SpecLock, SpecLink,           *)
(* SpecFront, SpecServer, SpecCodec, SpecSftp, SpecSession, SpecOpen,      *)
(* SpecRead, SpecWire, SpecOwned, SpecHandles) over its own variables; the *)
(* other components' variables stay at their initial values.               *)
(***************************************************************************)
EXTENDS Integers, Sequences, FiniteSets, TLC

(***************************************************************************)
(* Bounds of the model.                                                    *)
(***************************************************************************)
\* tasks of the storage node that call lock_file
MaxTasks == 2
\* distinct file UUIDs on the storage node
MaxUuids == 2
\* release tasks that have removed their entry and not yet notified
MaxNotify == 2

\* communicate calls made on one link
MaxCalls == 3
\* size of the MessageID space (the code's u32, scaled down): IDs are 0..NumIds-1
NumIds == 2

\* storage nodes in the front node's configuration
NumNodes == 2
\* front-node operations (get_file, upload_file) in one run
MaxOps == 2

\* frames one connection of the storage-node server reads
MaxFrames == 2
\* MessageIDs used by the server's peer
MaxReqId == 1

\* characters in an SFTP path
MaxPathLen == 5
\* bytes in a stored blob; the offset and the length of a read go one past it
MaxBlob == 3
\* the cap on the envelope and payload lengths of a frame that oversized
\* frames are measured against
MaxBody == 2
\* communicate calls writing their request on one link
MaxWriters == 2
\* callers of wait_until_finished on one OwnedTask
MaxWaiters == 3
\* handles of one file or directory a session holds unclosed at a time
MaxOpens == 2

LockTasks == 1..MaxTasks
Uuids == 1..MaxUuids
Calls == 1..MaxCalls
Ids == 0..(NumIds - 1)
\* StorageNodeIDs of the configured nodes
Nodes == 1..NumNodes
Ops == 1..MaxOps
\* file UUIDs: 0 is a file stored by an earlier run, each operation may make one
FileUuids == 0..MaxOps
\* file contents used by uploads
DataSet == {<<1>>, <<2, 1>>}

VARIABLES
    \* ---- storage_node/mod.rs: NodeInner and the tasks using it
    locked_files,   \* NodeInner::locked_files: the set of locked UUIDs (keys of the map)
    t_pc,           \* position of each task in lock_file / holding a FileLock
    t_uuid,         \* the UUID the task's lock_file call is for
    rel_spawned,    \* release tasks spawned by Drop, not yet run: UUID -> count
    rel_notify,     \* release tasks past remove(), before notify_waiters()
    not_held_seen   \* a release task took the "Lock was not held" branch

lockVars == <<locked_files, t_pc, t_uuid, rel_spawned, rel_notify, not_held_seen>>

VARIABLES
    \* ---- front_node/storage_node_connection.rs: one link and its users
    next_message_id,     \* StorageNodeConnectionInner::next_message_id
    waiting_responses,   \* ::waiting_responses: MessageID -> the call holding the receiver
    is_disconnected,     \* ::is_disconnected
    inner_lock,          \* holder of the Mutex around the inner state: 0 free, -1 the
                         \* receive task, otherwise the call
    disconnect_fired,    \* number of disconnect.notify_waiters() calls so far
    stream,              \* the TCP stream: "open" or "broken" (peer closed, IO error)
    peer_reqs,           \* requests written in full that the peer has not answered
    recv_pc,             \* position of the receive task
    recv_msg,            \* the (id, msg) the receive task has decoded
    c_pc,                \* position of each communicate call
    c_id,                \* the MessageID the call put on its request
    c_slot,              \* the call's one-shot channel
    c_result,            \* what the call returned
    c_after_disc,        \* the call started when is_disconnected was already set
    awaiting_at_error    \* the calls that were awaiting a reply when the decode error hit

linkVars == <<next_message_id, waiting_responses, is_disconnected, inner_lock,
              disconnect_fired, stream, peer_reqs, recv_pc, recv_msg,
              c_pc, c_id, c_slot, c_result, c_after_disc, awaiting_at_error>>

VARIABLES
    \* ---- front_node/mod.rs: FrontNode, monitor_connections, and the storage
    \* nodes behind the links (storage_node_main.rs)
    active_connections,  \* FrontNode::active_connections: the StorageNodeIDs with a link
    rw_readers,          \* read holds on the RwLock around the map, per operation
    rw_writer,           \* the monitor's write hold: "none", "waiting" or "held"
    m_pc,                \* position of monitor_connections
    m_next,              \* the configured node the startup loop is at
    nodes_db,            \* table nodes: the ids present
    files_db,            \* table files: rows (uuid, stored_on_node_id)
    next_uuid,           \* Uuid::now_v7(): the next fresh UUID
    link_state,          \* per node: "none" (not dialled yet), "refused" (the dial
                         \* failed), "up", "dead"
    peer_kind,           \* per node, fixed when the dial succeeds: "bnuystore" (this
                         \* repository's storage node) or "other" (any other peer)
    inbox,               \* per node: the requests written to its connection, in order
    disk,                \* per node: the blobs in its data folder, UUID -> bytes
    acked,               \* (node, uuid) pairs the node has answered WriteFile with Ack
    sent_to,             \* (node, uuid) pairs: WriteFile(uuid, ..) was written to node's link
    returned_uuids,      \* UUIDs that upload_file has returned
    o_pc,                \* position of each operation
    o_kind,              \* "upload" or "get"
    o_uuid,              \* the operation's UUID
    o_data,              \* upload_file's contents
    o_node,              \* the StorageNodeID the operation talks to (0: none)
    o_sent,              \* the operation has written a request to a link
    o_reply,             \* what communicate returned
    o_result,            \* what the operation returned
    o_after_upload       \* get_file started after upload_file had returned its UUID

frontVars == <<active_connections, rw_readers, rw_writer, m_pc, m_next, nodes_db,
               files_db, next_uuid, link_state, peer_kind, inbox, disk, acked,
               sent_to, returned_uuids, o_pc, o_kind, o_uuid, o_data, o_node, o_sent,
               o_reply, o_result, o_after_upload>>

VARIABLES
    \* ---- storage_node_main.rs: one accepted connection and its task
    sv_pc,          \* the per-connection task: "parse", "handle", "exited", "panicked"
    sv_req,         \* the (id, message) parse_message returned
    sv_disk,        \* the data folder: UUID -> bytes
    sv_sent,        \* the replies written to the stream, each with the request it
                    \* answers and the blob the request's UUID had before
    sv_failed,      \* the requests whose handling failed
    sv_n            \* frames read from the stream so far

serverVars == <<sv_pc, sv_req, sv_disk, sv_sent, sv_failed, sv_n>>

VARIABLES
    \* ---- message.rs: one write_message followed by one parse_message
    cd_pc,          \* "start", "written", "parsed"; "fed" after parse_message has
                    \* run on a frame of the peer's making
    cd_id,          \* the MessageID given to write_message
    cd_msg,         \* the Message given to write_message
    cd_tail,        \* bytes that follow the frame on the stream
    cd_stream,      \* the bytes on the stream
    cd_out,         \* what parse_message returned, and the bytes it left unread
    cd_hdr,         \* the message_length and data_length of the peer's frame
    cd_buffered     \* the largest buffer parse_message resized to for that frame

codecVars == <<cd_pc, cd_id, cd_msg, cd_tail, cd_stream, cd_out, cd_hdr, cd_buffered>>

VARIABLES
    \* ---- front_node/sftp.rs: one path taken through path resolution
    sf_pc,          \* "start", "called", "normalized", "resolved"
    sf_path,        \* the path the client sent
    sf_norm,        \* normalize_path(path)
    sf_again,       \* normalize_path of that result
    sf_abs,         \* absolutize_path(path)
    sf_dir          \* what opendir(path) returned

sftpVars == <<sf_pc, sf_path, sf_norm, sf_again, sf_abs, sf_dir>>

VARIABLES
    \* ---- front_node/sftp.rs: one SFTP session (SFTPConnection)
    directory_status,  \* SFTPConnection::directory_status: DirectoryID -> "none" (no
                       \* entry), "Unread" or "Read"
    file_status,       \* ::file_status: Uuid -> "none" (no entry), "plain" or "append"
    ss_req,            \* the request handled last, with what the database and the
                       \* storage node answered during it
    ss_ret,            \* what the handler returned
    ss_listed          \* per directory, since its entry in directory_status was made:
                       \* "none" (no readdir yet), "listed" (readdir was answered),
                       \* "failed" (a listing could not be fetched)

sessionVars == <<directory_status, file_status, ss_req, ss_ret, ss_listed>>

VARIABLES
    \* ---- front_node/sftp.rs: one read request of a session
    rd_req,            \* the read request handled last, with what get_file returned
    rd_ret             \* what read returned

readVars == <<rd_req, rd_ret>>

VARIABLES
    \* ---- storage_node_connection.rs / message.rs: the write side of one link
    wr_holder,         \* who holds the mutex around the inner state and the stream
    wr_pc,             \* per call: "idle", "writing", "done", "failed", "cancelled"
    wr_part,           \* per call: how many of the parts of write_message went out
    wr_wire            \* what was written on the stream, as [call, part] in order

wireVars == <<wr_holder, wr_pc, wr_part, wr_wire>>

VARIABLES
    \* ---- owned_task.rs: one OwnedTask and the callers of wait_until_finished
    ot_task,           \* the spawned task: "running", "notified" (the wrapped future
                       \* is over and notify_waiters was called), "finished", "aborted"
    ot_dropped,        \* the OwnedTask has been dropped
    ot_pc              \* per caller: "idle", "checked" (is_finished was false),
                       \* "waiting" (in notified().await), "woken", "returned"

ownedVars == <<ot_task, ot_dropped, ot_pc>>

VARIABLES
    \* ---- front_node/sftp.rs: the handles of one session whose paths resolve
    hd_directory_status,  \* SFTPConnection::directory_status
    hd_file_status,       \* SFTPConnection::file_status
    hd_issued,            \* per handle: how many times open or opendir returned it
                          \* and close has not yet succeeded on it
    hd_ret                \* the last call: its operation, its handle, its status

handleVars == <<hd_directory_status, hd_file_status, hd_issued, hd_ret>>

vars == <<lockVars, linkVars, frontVars, serverVars, codecVars, sftpVars, sessionVars,
          readVars, wireVars, ownedVars, handleVars>>

\* what a step of one component leaves alone
LockFrame ==
    UNCHANGED <<linkVars, frontVars, serverVars, codecVars, sftpVars, sessionVars, readVars, wireVars,
                ownedVars, handleVars>>
LinkFrame ==
    UNCHANGED <<lockVars, frontVars, serverVars, codecVars, sftpVars, sessionVars, readVars, wireVars,
                ownedVars, handleVars>>
FrontFrame ==
    UNCHANGED <<lockVars, linkVars, serverVars, codecVars, sftpVars, sessionVars, readVars, wireVars,
                ownedVars, handleVars>>
ServerFrame ==
    UNCHANGED <<lockVars, linkVars, frontVars, codecVars, sftpVars, sessionVars, readVars, wireVars,
                ownedVars, handleVars>>
CodecFrame ==
    UNCHANGED <<lockVars, linkVars, frontVars, serverVars, sftpVars, sessionVars, readVars, wireVars,
                ownedVars, handleVars>>
SftpFrame ==
    UNCHANGED <<lockVars, linkVars, frontVars, serverVars, codecVars, sessionVars, readVars, wireVars,
                ownedVars, handleVars>>
ReadFrame ==
    UNCHANGED <<lockVars, linkVars, frontVars, serverVars, codecVars, sftpVars, sessionVars, wireVars,
                ownedVars, handleVars>>
SessionFrame ==
    UNCHANGED <<lockVars, linkVars, frontVars, serverVars, codecVars, sftpVars, readVars,
                wireVars, ownedVars, handleVars>>
WireFrame ==
    UNCHANGED <<lockVars, linkVars, frontVars, serverVars, codecVars, sftpVars, sessionVars,
                readVars, ownedVars, handleVars>>
OwnedFrame ==
    UNCHANGED <<lockVars, linkVars, frontVars, serverVars, codecVars, sftpVars, sessionVars,
                readVars, wireVars, handleVars>>
HandleFrame ==
    UNCHANGED <<lockVars, linkVars, frontVars, serverVars, codecVars, sftpVars, sessionVars,
                readVars, wireVars, ownedVars>>

(***************************************************************************)
(* Storage-node link: state after StorageNodeConnection::connect.          *)
(***************************************************************************)

NoMsg == [id |-> 0, for |-> 0]
NoSlot == [st |-> "none", id |-> 0, for |-> 0]
NoResult == [kind |-> "none", id |-> 0, for |-> 0]

InitLink ==
    /\ next_message_id = 0
    /\ waiting_responses = [i \in {} |-> 0]
    /\ is_disconnected = FALSE
    /\ inner_lock = 0
    /\ disconnect_fired = 0
    /\ stream = "open"
    /\ peer_reqs = {}
    /\ recv_pc = "parse"
    /\ recv_msg = NoMsg
    /\ c_pc = [c \in Calls |-> "idle"]
    /\ c_id = [c \in Calls |-> 0]
    /\ c_slot = [c \in Calls |-> NoSlot]
    /\ c_result = [c \in Calls |-> NoResult]
    /\ c_after_disc = [c \in Calls |-> FALSE]
    /\ awaiting_at_error = {}

(***************************************************************************)
(* Front node: state after FrontNode::start_from_config, before the         *)
(* monitor task has run. The database holds the row of one file of an      *)
(* earlier run; the data folders of the storage nodes are empty.            *)
(***************************************************************************)

Msg(k, d) == [kind |-> k, data |-> d]
NoReply == Msg("none", <<>>)
EmptyDisk == [u \in {} |-> <<>>]

InitFront ==
    /\ active_connections = {}
    /\ rw_readers = [o \in Ops |-> 0]
    /\ rw_writer = "none"
    /\ m_pc = "consistent"
    /\ m_next = 1
    /\ nodes_db = {1}
    /\ files_db = {[uuid |-> 0, node |-> 1]}
    /\ next_uuid = 1
    /\ link_state = [n \in Nodes |-> "none"]
    /\ peer_kind = [n \in Nodes |-> "unknown"]
    /\ inbox = [n \in Nodes |-> <<>>]
    /\ disk = [n \in Nodes |-> EmptyDisk]
    /\ acked = {}
    /\ sent_to = {}
    /\ returned_uuids = {}
    /\ o_pc = [o \in Ops |-> "idle"]
    /\ o_kind = [o \in Ops |-> "none"]
    /\ o_uuid = [o \in Ops |-> 0]
    /\ o_data = [o \in Ops |-> <<>>]
    /\ o_node = [o \in Ops |-> 0]
    /\ o_sent = [o \in Ops |-> FALSE]
    /\ o_reply = [o \in Ops |-> NoReply]
    /\ o_result = [o \in Ops |-> NoReply]
    /\ o_after_upload = [o \in Ops |-> FALSE]

(***************************************************************************)
(* Storage-node server: a connection has been accepted and its task        *)
(* spawned. The data folder holds the blob of UUID 1.                       *)
(***************************************************************************)

NoRequest == [id |-> 0, kind |-> "none", uuid |-> 0, data |-> <<>>]

InitServer ==
    /\ sv_pc = "parse"
    /\ sv_req = NoRequest
    /\ sv_disk = [u \in {1} |-> <<1, 2>>]
    /\ sv_sent = <<>>
    /\ sv_failed = {}
    /\ sv_n = 0

(***************************************************************************)
(* Wire codec and SFTP path resolution: nothing written or resolved yet.   *)
(***************************************************************************)

\* a Message: the variant, and the fields the variant has (others empty)
Message(k, u, str, d) == [kind |-> k, uuid |-> u, str |-> str, data |-> d]
NoParse == [ok |-> FALSE, err |-> "none", id |-> 0,
            msg |-> Message("none", 0, <<>>, <<>>), rest |-> <<>>]

InitCodec ==
    /\ cd_pc = "start"
    /\ cd_id = 0
    /\ cd_msg = Message("none", 0, <<>>, <<>>)
    /\ cd_tail = <<>>
    /\ cd_stream = <<>>
    /\ cd_out = NoParse
    /\ cd_hdr = [message_length |-> 0, data_length |-> 0]
    /\ cd_buffered = 0

\* an SFTPResult<String>: Ok(path) or Err(status code)
SftpOk(p) == [ok |-> TRUE, path |-> p, err |-> "none"]
SftpErr(code) == [ok |-> FALSE, path |-> <<>>, err |-> code]
NoAbs == [ok |-> FALSE, base |-> "none", path |-> <<>>, err |-> "none"]

NoDir == [ok |-> FALSE, dir |-> 0, err |-> "none"]

InitSftp ==
    /\ sf_pc = "start"
    /\ sf_path = <<>>
    /\ sf_norm = SftpErr("none")
    /\ sf_again = SftpErr("none")
    /\ sf_abs = NoAbs
    /\ sf_dir = NoDir

(***************************************************************************)
(* File-lock engine.                                                       *)
(***************************************************************************)

\* lock_file's test under the writer lock: the UUID has no entry
CanLock_NoCheck(table, u) == TRUE
CanLock(table, u) == u \notin table

InitLock ==
    /\ locked_files = {}
    /\ t_pc = [t \in LockTasks |-> "idle"]
    /\ t_uuid = [t \in LockTasks |-> 1]
    /\ rel_spawned = [u \in Uuids |-> 0]
    /\ rel_notify = 0
    /\ not_held_seen = FALSE

\* every component in its state after construction
(***************************************************************************)
(* One SFTP session: the database tables behind it, and SFTPConnection::new *)
(***************************************************************************)

\* tables root_directory, users.home_directory and directories
RootDirectory == 1
HomeDirectory == 2
Directories == {[id |-> 2, name |-> <<"a">>, parent |-> 1],
                [id |-> 3, name |-> <<"a">>, parent |-> 2]}

\* table files: in the home directory a file named like the directory next
\* to it, and a file with a name of its own
Files == {[uuid |-> 1, name |-> <<"a">>, dir |-> 2],
          [uuid |-> 2, name |-> <<"b">>, dir |-> 2]}

DirectoryIds == {RootDirectory} \cup {r.id : r \in Directories}
\* the UUIDs a file handle may name: those of the table and one of no file
HandleUuids == {r.uuid : r \in Files} \cup {3}

\* enum Handle, and a handle string Handle::from_str rejects
Handle(kind, id) == [kind |-> kind, id |-> id]
NoHandle == Handle("none", 0)
BadHandle == Handle("bad", 0)

\* what get_file returned to read
NoBlob == [ok |-> FALSE, data |-> <<>>]

NoReq == [op |-> "none", path |-> <<>>, handle |-> NoHandle, flags |-> {},
          home_found |-> TRUE, dir_db |-> "ok", file_db |-> "ok", list_ok |-> TRUE]
NoRead == [op |-> "none", handle |-> NoHandle, offset |-> 0, len |-> 0, got |-> NoBlob]
NoRet == [code |-> "none", handle |-> NoHandle, files |-> {}, data |-> <<>>]

InitSession ==
    /\ directory_status = [d \in DirectoryIds |-> "none"]
    /\ file_status = [u \in HandleUuids |-> "none"]
    /\ ss_req = NoReq
    /\ ss_ret = NoRet
    /\ ss_listed = [d \in DirectoryIds |-> "none"]
    /\ rd_req = NoRead
    /\ rd_ret = NoRet

\* communicate calls on the link, and the holders of its mutex: nobody, a
\* call, or the receive task
Writers == 1..MaxWriters
NoHolder == 0
RecvHolder == MaxWriters + 1
\* the writes of write_message: id, envelope length, payload length,
\* envelope, payload
WriteParts == 5

InitWire ==
    /\ wr_holder = NoHolder
    /\ wr_pc = [c \in Writers |-> "idle"]
    /\ wr_part = [c \in Writers |-> 0]
    /\ wr_wire = <<>>

\* OwnedTask::spawn has returned: the task runs the wrapped future
Waiters == 1..MaxWaiters

InitOwned ==
    /\ ot_task = "running"
    /\ ot_dropped = FALSE
    /\ ot_pc = [w \in Waiters |-> "idle"]

\* the handles the session can be given: one per directory and per file
IssuedHandles ==
    {Handle("d", d) : d \in DirectoryIds} \cup {Handle("f", r.uuid) : r \in Files}
NoCall == [op |-> "none", handle |-> NoHandle, code |-> "none"]

InitHandles ==
    /\ hd_directory_status = [d \in DirectoryIds |-> "none"]
    /\ hd_file_status = [u \in HandleUuids |-> "none"]
    /\ hd_issued = [h \in IssuedHandles |-> 0]
    /\ hd_ret = NoCall

Init ==
    /\ InitLock /\ InitLink /\ InitFront /\ InitServer /\ InitCodec /\ InitSftp
    /\ InitSession /\ InitWire /\ InitOwned /\ InitHandles

\* a task calls lock_file(uuid, reason) and suspends on locked_files.write()
LockFileCall(t, u) ==
    /\ LockFrame
    /\ t_pc[t] \in {"idle", "cancelled"}
    /\ t_pc' = [t_pc EXCEPT ![t] = "write_wait"]
    /\ t_uuid' = [t_uuid EXCEPT ![t] = u]
    /\ UNCHANGED <<locked_files, rel_spawned, rel_notify, not_held_seen>>

\* the loop body under the writer lock: insert and return the FileLock, or
\* drop the guard and go on to file_unlocked.notified()
LockFileCheck(t) ==
    /\ LockFrame
    /\ t_pc[t] = "write_wait"
    /\ IF CanLock(locked_files, t_uuid[t])
         THEN /\ locked_files' = locked_files \cup {t_uuid[t]}
              /\ t_pc' = [t_pc EXCEPT ![t] = "held"]
         ELSE /\ t_pc' = [t_pc EXCEPT ![t] = "guard_dropped"]
              /\ UNCHANGED locked_files
    /\ UNCHANGED <<t_uuid, rel_spawned, rel_notify, not_held_seen>>

\* the Notified future is created: from here on notify_waiters() reaches it
LockFileRegister(t) ==
    /\ LockFrame
    /\ t_pc[t] = "guard_dropped"
    /\ t_pc' = [t_pc EXCEPT ![t] = "notified_wait"]
    /\ UNCHANGED <<locked_files, t_uuid, rel_spawned, rel_notify, not_held_seen>>

\* the suspension points of lock_file: locked_files.write().await and
\* file_unlocked.notified().await. The insert and the return of the FileLock
\* have no await between them
CancelPoints_AfterInsert == {"write_wait", "notified_wait", "held"}
CancelPoints == {"write_wait", "notified_wait"}

\* the future holding lock_file is dropped at one of its two awaits
LockFileCancel(t) ==
    /\ LockFrame
    /\ t_pc[t] \in CancelPoints
    /\ t_pc' = [t_pc EXCEPT ![t] = "cancelled"]
    /\ UNCHANGED <<locked_files, t_uuid, rel_spawned, rel_notify, not_held_seen>>

\* impl Drop for FileLock: spawn the release task on the captured runtime handle
DropFileLock(t) ==
    /\ LockFrame
    /\ t_pc[t] = "held"
    /\ t_pc' = [t_pc EXCEPT ![t] = "idle"]
    /\ rel_spawned' = [rel_spawned EXCEPT ![t_uuid[t]] = @ + 1]
    /\ UNCHANGED <<locked_files, t_uuid, rel_notify, not_held_seen>>

\* locked_files.remove(&for_uuid)
LockedAfterRemove_Keep(table, u) == table
LockedAfterRemove_All(table, u) == {}
LockedAfterRemove(table, u) == table \ {u}

\* the release task under the writer lock: locked_files.remove(&for_uuid)
ReleaseRemove(u) ==
    /\ LockFrame
    /\ rel_spawned[u] > 0
    /\ rel_notify < MaxNotify
    /\ rel_spawned' = [rel_spawned EXCEPT ![u] = @ - 1]
    /\ locked_files' = LockedAfterRemove(locked_files, u)
    /\ not_held_seen' = (not_held_seen \/ u \notin locked_files)
    /\ rel_notify' = rel_notify + 1
    /\ UNCHANGED <<t_pc, t_uuid>>

\* the release task's node.file_unlocked.notify_waiters(): every registered
\* Notified future is woken and its lock_file loops
ReleaseNotify ==
    /\ LockFrame
    /\ rel_notify > 0
    /\ rel_notify' = rel_notify - 1
    /\ t_pc' = [t \in LockTasks |->
                  IF t_pc[t] = "notified_wait" THEN "write_wait" ELSE t_pc[t]]
    /\ UNCHANGED <<locked_files, t_uuid, rel_spawned, not_held_seen>>

NextLock ==
    \/ \E t \in LockTasks, u \in Uuids : LockFileCall(t, u)
    \/ \E t \in LockTasks : LockFileCheck(t)
    \/ \E t \in LockTasks : LockFileRegister(t)
    \/ \E t \in LockTasks : LockFileCancel(t)
    \/ \E t \in LockTasks : DropFileLock(t)
    \/ \E u \in Uuids : ReleaseRemove(u)
    \/ ReleaseNotify

SpecLock == Init /\ [][NextLock]_vars

\* the runtime keeps polling spawned release tasks and lock_file callers that
\* can go on; tokio's RwLock grants the writer lock in FIFO order. A FileLock
\* lives for one read or write call and is dropped when the call returns.
\* Calls and cancellations are up to the callers. A release task is strongly
\* fair because only the model's bound on rel_notify ever disables it
FairSpecLock ==
    /\ SpecLock
    /\ \A t \in LockTasks : WF_vars(LockFileCheck(t)) /\ WF_vars(LockFileRegister(t))
    /\ \A t \in LockTasks : WF_vars(DropFileLock(t))
    /\ \A u \in Uuids : SF_vars(ReleaseRemove(u))
    /\ WF_vars(ReleaseNotify)

(***************************************************************************)
(* Claims about the file-lock engine.                                      *)
(***************************************************************************)

\* the tasks that hold a live FileLock for u
Holders(u) == {t \in LockTasks : t_pc[t] = "held" /\ t_uuid[t] = u}

\* C1: for every UUID u at most one FileLock for u is live (acquired and not
\* yet dropped) at any time, and a live FileLock's UUID has its table entry.
C1_AtMostOneLock ==
    \A u \in Uuids :
        /\ Cardinality(Holders(u)) <= 1
        /\ Holders(u) # {} => u \in locked_files

\* C1 witness: one task holds the lock for u while another task's lock_file(u)
\* has found the entry and waits for the released-signal
C1_Witness ==
    \E t1, t2 \in LockTasks :
        /\ t1 # t2
        /\ t_uuid[t1] = t_uuid[t2]
        /\ t_pc[t1] = "held"
        /\ t_pc[t2] = "notified_wait"

\* C14: after a FileLock is dropped (by scope exit, error or panic exit, or
\* cancellation of its holder) the entry of its UUID is eventually removed
\* from the lock table and the released-signal is then broadcast.
C14_ReleaseHappens ==
    /\ \A u \in Uuids : (rel_spawned[u] > 0) ~> (u \notin locked_files)
    /\ []<><<ReleaseNotify>>_vars \/ <>[](rel_notify = 0)

\* C14 witness: a FileLock was dropped while another task waited for its
\* UUID; the release task has removed the entry and not yet broadcast.
C14_Witness ==
    \E t \in LockTasks :
        /\ t_pc[t] = "notified_wait"
        /\ t_uuid[t] \notin locked_files
        /\ rel_spawned[t_uuid[t]] = 0
        /\ rel_notify > 0

\* task t is in lock_file(u) past the test that found u locked
Waiting(t) == t_pc[t] \in {"guard_dropped", "notified_wait"}

\* C15: a task waiting in lock_file(u) whose UUID has been released, and is
\* not acquired by another task, eventually leaves the wait and acquires the
\* lock, whatever the interleaving of the release task with the waiter.
C15_WaiterProceeds ==
    \A t \in LockTasks :
        (Waiting(t) /\ t_uuid[t] \notin locked_files)
            ~> (~Waiting(t) \/ t_uuid[t] \in locked_files)

\* C16: an entry for u is in the lock table only if some lock_file(u) call
\* returned a FileLock that is still live or whose release task has not yet
\* run; cancelled calls leave no entry.
C16_NoPhantomEntry ==
    \A u \in locked_files : Holders(u) # {} \/ rel_spawned[u] > 0

\* C16 witness: a lock_file(u) call was cancelled, every FileLock has been
\* dropped and released, and the table is empty.
C16_Witness ==
    /\ \E t \in LockTasks : t_pc[t] = "cancelled" /\ t_uuid[t] = 2
    /\ \E t \in LockTasks : t_pc[t] = "idle" /\ t_uuid[t] = 2
    /\ \A t \in LockTasks : t_pc[t] \in {"idle", "cancelled"}
    /\ \A u \in Uuids : rel_spawned[u] = 0
    /\ locked_files = {}

\* C40: whenever a release task runs, the lock table holds the entry of
\* its UUID (the "Lock was not held" branch is never reached), and the
\* release removes that entry only.
C40_ReleaseFindsEntry ==
    [][\A u \in Uuids :
          rel_spawned'[u] < rel_spawned[u] =>
              /\ u \in locked_files
              /\ locked_files' = locked_files \ {u}
              /\ ~not_held_seen']_vars

\* C40 witness: a release task has run and removed the entry of UUID 1
\* while the FileLock of UUID 2 is held and its entry is still in the table.
C40_Witness ==
    /\ rel_notify > 0
    /\ locked_files = {2}
    /\ \E t \in LockTasks : t_pc[t] = "held" /\ t_uuid[t] = 2
    /\ \E t \in LockTasks : t_pc[t] = "idle" /\ t_uuid[t] = 1
    /\ ~not_held_seen

(***************************************************************************)
(* Storage-node link: communicate and the receive task.                    *)
(***************************************************************************)

\* the do-while of communicate: next_message_id after wrapping_add(1) until
\* it is no key of waiting_responses (k = NumIds comes back to `next` itself)
LoopEnds(next, table) == \E k \in 1..NumIds : ((next + k) % NumIds) \notin DOMAIN table
NextFreeId(next, table) ==
    LET k == CHOOSE k \in 1..NumIds :
                 /\ ((next + k) % NumIds) \notin DOMAIN table
                 /\ \A j \in 1..(k - 1) : ((next + j) % NumIds) \in DOMAIN table
    IN (next + k) % NumIds

\* HashMap::insert(id, sender) and HashMap::remove(&id)
MapInsert(table, id, c) == [i \in (DOMAIN table) \cup {id} |-> IF i = id THEN c ELSE table[i]]
MapRemove(table, id) == [i \in (DOMAIN table) \ {id} |-> table[i]]

\* the receive task's waiting_responses.remove(&id): the key it takes out
RecvKey_Any(table, id) ==
    IF DOMAIN table = {} THEN {} ELSE {CHOOSE i \in DOMAIN table : \A j \in DOMAIN table : i <= j}
RecvKey(table, id) == IF id \in DOMAIN table THEN {id} ELSE {}

\* the error branch's waiting_responses.drain(): the keys whose senders are dropped
DrainKeys_None(table) == {}
DrainKeys(table) == DOMAIN table

\* where the receive task goes after the error branch: `break`
AfterKill_Continue == "parse"
AfterKill == "exited"

\* dropping a sender closes the one-shot unless a value was sent
CloseSlot(slot) == IF slot.st = "empty" THEN [slot EXCEPT !.st = "closed"] ELSE slot

\* calls are taken in the order of their numbers
MayStart(c) == c_pc[c] = "idle" /\ (IF c = 1 THEN TRUE ELSE c_pc[c - 1] # "idle")

\* communicate is called and gets the mutex: it generates its ID and installs
\* its one-shot; a sender already stored under that ID is replaced and dropped
CommInstall(c) ==
    /\ LinkFrame
    /\ MayStart(c)
    /\ inner_lock = 0
    /\ LoopEnds(next_message_id, waiting_responses)
    /\ LET id == next_message_id
           old == IF id \in DOMAIN waiting_responses THEN {waiting_responses[id]} ELSE {}
       IN /\ next_message_id' = NextFreeId(next_message_id, waiting_responses)
          /\ waiting_responses' = MapInsert(waiting_responses, id, c)
          /\ c_id' = [c_id EXCEPT ![c] = id]
          /\ c_slot' = [d \in Calls |->
                          IF d = c THEN [st |-> "empty", id |-> 0, for |-> 0]
                          ELSE IF d \in old THEN CloseSlot(c_slot[d])
                          ELSE c_slot[d]]
    /\ inner_lock' = c
    /\ c_pc' = [c_pc EXCEPT ![c] = "writing"]
    /\ c_after_disc' = [c_after_disc EXCEPT ![c] = is_disconnected]
    /\ UNCHANGED <<is_disconnected, disconnect_fired, stream, peer_reqs, recv_pc,
                   recv_msg, c_result, awaiting_at_error>>

\* communicate is called and gets the mutex while every ID is a key: the
\* do-while never ends and the mutex is never released
CommSpin(c) ==
    /\ LinkFrame
    /\ MayStart(c)
    /\ inner_lock = 0
    /\ ~LoopEnds(next_message_id, waiting_responses)
    /\ inner_lock' = c
    /\ c_pc' = [c_pc EXCEPT ![c] = "spinning"]
    /\ c_after_disc' = [c_after_disc EXCEPT ![c] = is_disconnected]
    /\ UNCHANGED <<next_message_id, waiting_responses, is_disconnected,
                   disconnect_fired, stream, peer_reqs, recv_pc, recv_msg,
                   c_id, c_slot, c_result, awaiting_at_error>>

\* write_message returned Ok: the request is on the stream, the mutex is
\* released and the call awaits its one-shot
CommWriteOk(c) ==
    /\ LinkFrame
    /\ c_pc[c] = "writing"
    /\ peer_reqs' = IF stream = "open"
                      THEN peer_reqs \cup {[id |-> c_id[c], for |-> c]}
                      ELSE peer_reqs
    /\ inner_lock' = 0
    /\ c_pc' = [c_pc EXCEPT ![c] = "awaiting"]
    /\ UNCHANGED <<next_message_id, waiting_responses, is_disconnected,
                   disconnect_fired, stream, recv_pc, recv_msg,
                   c_id, c_slot, c_result, c_after_disc, awaiting_at_error>>

\* write_message returned Err: `?` returns ClientDisconnected; the guard and
\* the receiver are dropped, the sender stays in the table
CommWriteFail(c) ==
    /\ LinkFrame
    /\ c_pc[c] = "writing"
    /\ stream = "broken"
    /\ inner_lock' = 0
    /\ c_pc' = [c_pc EXCEPT ![c] = "done"]
    /\ c_result' = [c_result EXCEPT ![c] = [kind |-> "ClientDisconnected", id |-> 0, for |-> 0]]
    /\ UNCHANGED <<next_message_id, waiting_responses, is_disconnected,
                   disconnect_fired, stream, peer_reqs, recv_pc, recv_msg,
                   c_id, c_slot, c_after_disc, awaiting_at_error>>

\* listener.await completes: Ok(m) with the value sent, ClientDisconnected
\* when the sender was dropped
CommReturn(c) ==
    /\ LinkFrame
    /\ c_pc[c] = "awaiting"
    /\ c_slot[c].st \in {"full", "closed"}
    /\ c_pc' = [c_pc EXCEPT ![c] = "done"]
    /\ c_result' = [c_result EXCEPT ![c] =
                      IF c_slot[c].st = "full"
                        THEN [kind |-> "Ok", id |-> c_slot[c].id, for |-> c_slot[c].for]
                        ELSE [kind |-> "ClientDisconnected", id |-> 0, for |-> 0]]
    /\ c_slot' = [c_slot EXCEPT ![c] = [st |-> "taken", id |-> 0, for |-> 0]]
    /\ UNCHANGED <<next_message_id, waiting_responses, is_disconnected, inner_lock,
                   disconnect_fired, stream, peer_reqs, recv_pc, recv_msg,
                   c_id, c_after_disc, awaiting_at_error>>

\* the future of a communicate call is dropped while it awaits its reply:
\* the receiver is dropped, the table entry stays
CommCancel(c) ==
    /\ LinkFrame
    /\ c_pc[c] = "awaiting"
    /\ c_pc' = [c_pc EXCEPT ![c] = "cancelled"]
    /\ UNCHANGED <<next_message_id, waiting_responses, is_disconnected, inner_lock,
                   disconnect_fired, stream, peer_reqs, recv_pc, recv_msg,
                   c_id, c_slot, c_result, c_after_disc, awaiting_at_error>>

\* the peer closes the connection or the transport fails
StreamBreak ==
    /\ LinkFrame
    /\ stream = "open"
    /\ stream' = "broken"
    /\ peer_reqs' = {}
    /\ UNCHANGED <<next_message_id, waiting_responses, is_disconnected, inner_lock,
                   disconnect_fired, recv_pc, recv_msg,
                   c_pc, c_id, c_slot, c_result, c_after_disc, awaiting_at_error>>

\* parse_message returns Ok((id, msg)): the peer's reply to one of the
\* requests it holds, in any order
RecvParseReply(r) ==
    /\ LinkFrame
    /\ recv_pc = "parse"
    /\ stream = "open"
    /\ r \in peer_reqs
    /\ peer_reqs' = peer_reqs \ {r}
    /\ recv_msg' = [id |-> r.id, for |-> r.for]
    /\ recv_pc' = "got"
    /\ UNCHANGED <<next_message_id, waiting_responses, is_disconnected, inner_lock,
                   disconnect_fired, stream,
                   c_pc, c_id, c_slot, c_result, c_after_disc, awaiting_at_error>>

\* parse_message returns Ok((id, msg)) for a message that answers no request
RecvParseUnsolicited(i) ==
    /\ LinkFrame
    /\ recv_pc = "parse"
    /\ stream = "open"
    /\ recv_msg' = [id |-> i, for |-> 0]
    /\ recv_pc' = "got"
    /\ UNCHANGED <<next_message_id, waiting_responses, is_disconnected, inner_lock,
                   disconnect_fired, stream, peer_reqs,
                   c_pc, c_id, c_slot, c_result, c_after_disc, awaiting_at_error>>

\* Ok branch: lock, remove(&id), unlock, sender.send(msg)
RecvDeliver ==
    /\ LinkFrame
    /\ recv_pc = "got"
    /\ inner_lock = 0
    /\ LET keys == RecvKey(waiting_responses, recv_msg.id)
       IN /\ waiting_responses' =
                 [i \in (DOMAIN waiting_responses) \ keys |-> waiting_responses[i]]
          /\ c_slot' = [d \in Calls |->
                          IF /\ \E i \in keys : waiting_responses[i] = d
                             /\ c_slot[d].st = "empty"
                            THEN [st |-> "full", id |-> recv_msg.id, for |-> recv_msg.for]
                            ELSE c_slot[d]]
    /\ recv_pc' = "parse"
    /\ recv_msg' = NoMsg
    /\ UNCHANGED <<next_message_id, is_disconnected, inner_lock, disconnect_fired,
                   stream, peer_reqs, c_pc, c_id, c_result, c_after_disc,
                   awaiting_at_error>>

\* parse_message returns Err (IO error on a broken stream, or bad JSON, a bad
\* UUID, an oversized frame on an open one): disconnect.notify_waiters()
RecvParseError ==
    /\ LinkFrame
    /\ recv_pc = "parse"
    /\ disconnect_fired' = disconnect_fired + 1
    /\ recv_pc' = "err_lock"
    /\ awaiting_at_error' =
          {c \in Calls : c_pc[c] = "awaiting" /\ c_slot[c].st = "empty"}
    /\ UNCHANGED <<next_message_id, waiting_responses, is_disconnected, inner_lock,
                   stream, peer_reqs, recv_msg,
                   c_pc, c_id, c_slot, c_result, c_after_disc>>

\* Err branch after the notify: lock, is_disconnected = true, drain, break
RecvKill ==
    /\ LinkFrame
    /\ recv_pc = "err_lock"
    /\ inner_lock = 0
    /\ is_disconnected' = TRUE
    /\ LET keys == DrainKeys(waiting_responses)
       IN /\ waiting_responses' =
                 [i \in (DOMAIN waiting_responses) \ keys |-> waiting_responses[i]]
          /\ c_slot' = [d \in Calls |->
                          IF \E i \in keys : waiting_responses[i] = d
                            THEN CloseSlot(c_slot[d]) ELSE c_slot[d]]
    /\ recv_pc' = AfterKill
    /\ UNCHANGED <<next_message_id, inner_lock, disconnect_fired, stream, peer_reqs,
                   recv_msg, c_pc, c_id, c_result, c_after_disc, awaiting_at_error>>

NextLink ==
    \/ \E c \in Calls : CommInstall(c)
    \/ \E c \in Calls : CommSpin(c)
    \/ \E c \in Calls : CommWriteOk(c)
    \/ \E c \in Calls : CommWriteFail(c)
    \/ \E c \in Calls : CommReturn(c)
    \/ \E c \in Calls : CommCancel(c)
    \/ StreamBreak
    \/ \E r \in peer_reqs : RecvParseReply(r)
    \/ \E i \in Ids : RecvParseUnsolicited(i)
    \/ RecvDeliver
    \/ RecvParseError
    \/ RecvKill

SpecLink == Init /\ [][NextLink]_vars

\* the runtime keeps polling the receive task and the communicate calls that
\* can go on. What the peer sends, whether the stream breaks and whether a
\* caller drops its call are up to them; no timer is armed anywhere
FairSpecLink ==
    /\ SpecLink
    /\ \A c \in Calls : WF_vars(CommWriteOk(c)) /\ WF_vars(CommReturn(c))
    /\ WF_vars(RecvDeliver)
    /\ WF_vars(RecvKill)

(***************************************************************************)
(* Front node: monitor_connections, upload_file, get_file, and the storage  *)
(* node serving each link. Database queries are taken to succeed.           *)
(***************************************************************************)

\* FileLock::write: open with write+create (no truncate), write_all
DiskWrite_Lossy(d, u, data) ==
    [v \in (DOMAIN d) \cup {u} |-> IF v = u THEN SubSeq(data, 1, Len(data) - 1) ELSE d[v]]
DiskWrite(d, u, data) ==
    LET old == IF u \in DOMAIN d THEN d[u] ELSE <<>>
    IN [v \in (DOMAIN d) \cup {u} |->
          IF v = u THEN data \o SubSeq(old, Len(data) + 1, Len(old)) ELSE d[v]]

\* handle_message on the storage node: the reply, the data folder afterwards,
\* and whether the per-connection task panics (expect, todo!)
HandleMessage(d, req) ==
    CASE req.kind = "GetVersion" ->
            [panic |-> FALSE, reply |-> Msg("MyVersionIs", <<>>), disk |-> d]
      [] req.kind = "ReadFile" ->
            IF req.uuid \in DOMAIN d
              THEN [panic |-> FALSE, reply |-> Msg("FileContents", d[req.uuid]), disk |-> d]
              ELSE [panic |-> TRUE, reply |-> NoReply, disk |-> d]
      [] req.kind = "WriteFile" ->
            [panic |-> FALSE, reply |-> Msg("Ack", <<>>),
             disk |-> DiskWrite(d, req.uuid, req.data)]
      [] OTHER -> [panic |-> TRUE, reply |-> NoReply, disk |-> d]

\* what a peer that is not this repository's storage node may answer
OtherReplies ==
    {Msg("Ack", <<>>), Msg("Error", <<>>)} \cup {Msg("FileContents", x) : x \in DataSet}

\* upload_file's match on the reply: only Ack lets it go on to the INSERT
UploadAccepts_AnyReply(reply) == reply.kind # "ClientDisconnected"
UploadAccepts(reply) == reply.kind = "Ack"

\* get_file's match on what communicate returned
GetFileResult_AnyData(reply) ==
    IF reply.kind = "ClientDisconnected" THEN Msg("ConnectionError", <<>>)
    ELSE Msg("Ok", reply.data)
GetFileResult(reply) ==
    IF reply.kind = "ClientDisconnected" THEN Msg("ConnectionError", <<>>)
    ELSE IF reply.kind = "FileContents" THEN Msg("Ok", reply.data)
    ELSE Msg("UnexpectedResponse", <<>>)

\* get_file's lookup in the active map
MapHas(conns, id) == id \in conns

\* the connection of node n is gone: every call awaiting a reply on its link
\* returns ClientDisconnected, the requests it held are lost
RepliesAfterDeath(n) ==
    [o \in Ops |->
        IF o_pc[o] \in {"up_wait", "get_wait"} /\ o_node[o] = n /\ o_reply[o].kind = "none"
           /\ \E i \in 1..Len(inbox[n]) : inbox[n][i].op = o
          THEN Msg("ClientDisconnected", <<>>) ELSE o_reply[o]]

\* operations are taken in the order of their numbers
MayStartOp(o) == o_pc[o] = "idle" /\ (IF o = 1 THEN TRUE ELSE o_pc[o - 1] # "idle")

\* monitor_connections: every configured name gets its row in nodes; then
\* the task asks for the write hold
MonitorConsistent ==
    /\ FrontFrame
    /\ m_pc = "consistent"
    /\ nodes_db' = nodes_db \cup Nodes
    /\ rw_writer' = "waiting"
    /\ m_pc' = "want_write"
    /\ UNCHANGED <<active_connections, rw_readers, m_next, files_db, next_uuid,
                   link_state, peer_kind, inbox, disk, acked, sent_to, returned_uuids,
                   o_pc, o_kind, o_uuid, o_data, o_node, o_sent, o_reply, o_result,
                   o_after_upload>>

\* the write hold is granted once no read hold is left
MonitorAcquire ==
    /\ FrontFrame
    /\ m_pc = "want_write"
    /\ \A o \in Ops : rw_readers[o] = 0
    /\ rw_writer' = "held"
    /\ m_pc' = "dialing"
    /\ UNCHANGED <<active_connections, rw_readers, m_next, nodes_db, files_db,
                   next_uuid, link_state, peer_kind, inbox, disk, acked, sent_to,
                   returned_uuids, o_pc, o_kind, o_uuid, o_data, o_node, o_sent,
                   o_reply, o_result, o_after_upload>>

\* the startup loop: StorageNodeConnection::connect succeeds and the link is
\* inserted under the node's id
MonitorDialOk(k) ==
    /\ FrontFrame
    /\ m_pc = "dialing"
    /\ m_next <= NumNodes
    /\ active_connections' = active_connections \cup {m_next}
    /\ link_state' = [link_state EXCEPT ![m_next] = "up"]
    /\ peer_kind' = [peer_kind EXCEPT ![m_next] = k]
    /\ m_next' = m_next + 1
    /\ UNCHANGED <<rw_readers, rw_writer, m_pc, nodes_db, files_db, next_uuid,
                   inbox, disk, acked, sent_to, returned_uuids, o_pc, o_kind, o_uuid, o_data,
                   o_node, o_sent, o_reply, o_result, o_after_upload>>

\* where the startup loop goes after a failed connect: `continue`
DialFailNext_Abort(next) == NumNodes + 1
DialFailNext(next) == next + 1

\* the startup loop: connect fails, the node is logged and skipped
MonitorDialFail ==
    /\ FrontFrame
    /\ m_pc = "dialing"
    /\ m_next <= NumNodes
    /\ link_state' = [link_state EXCEPT ![m_next] = "refused"]
    /\ m_next' = DialFailNext(m_next)
    /\ UNCHANGED <<active_connections, rw_readers, rw_writer, m_pc, nodes_db,
                   files_db, next_uuid, peer_kind, inbox, disk, acked, sent_to,
                   returned_uuids, o_pc, o_kind, o_uuid, o_data, o_node, o_sent,
                   o_reply, o_result, o_after_upload>>

\* the loop is over: the write hold is dropped and monitor_connections returns
MonitorReturn ==
    /\ FrontFrame
    /\ m_pc = "dialing"
    /\ m_next > NumNodes
    /\ rw_writer' = "none"
    /\ m_pc' = "done"
    /\ UNCHANGED <<active_connections, rw_readers, m_next, nodes_db, files_db,
                   next_uuid, link_state, peer_kind, inbox, disk, acked, sent_to,
                   returned_uuids, o_pc, o_kind, o_uuid, o_data, o_node, o_sent,
                   o_reply, o_result, o_after_upload>>

\* the request of an operation: WriteFile(uuid, contents) or ReadFile(uuid)
Request(o, k, u, d) == [op |-> o, kind |-> k, uuid |-> u, data |-> d]

\* conn.communicate(..) writes the request to the link of node n. On a dead
\* link the bytes go nowhere and no reply will come
InboxAfterSend(n, req) ==
    IF link_state[n] = "up" THEN [inbox EXCEPT ![n] = Append(@, req)] ELSE inbox

\* upload_file is called with a fresh v7 UUID and takes its read hold:
\* let conns = self.active_connections.read().await
UploadRead(o, d) ==
    /\ FrontFrame
    /\ MayStartOp(o)
    /\ rw_writer = "none"
    /\ o_kind' = [o_kind EXCEPT ![o] = "upload"]
    /\ o_uuid' = [o_uuid EXCEPT ![o] = next_uuid]
    /\ next_uuid' = next_uuid + 1
    /\ o_data' = [o_data EXCEPT ![o] = d]
    /\ rw_readers' = [rw_readers EXCEPT ![o] = 1]
    /\ o_pc' = [o_pc EXCEPT ![o] = "up_select"]
    /\ UNCHANGED <<active_connections, rw_writer, m_pc, m_next, nodes_db, files_db,
                   link_state, peer_kind, inbox, disk, acked, sent_to,
                   returned_uuids, o_node, o_sent, o_reply, o_result, o_after_upload>>

\* get_appropriate_node_for under its own read hold returns a key of the map;
\* conns.get(&id).unwrap().communicate(WriteFile(uuid, contents)) writes the
\* request
UploadSelect(o, n) ==
    /\ FrontFrame
    /\ o_pc[o] = "up_select"
    /\ rw_writer = "none"
    /\ n \in active_connections
    /\ o_node' = [o_node EXCEPT ![o] = n]
    /\ inbox' = InboxAfterSend(n, Request(o, "WriteFile", o_uuid[o], o_data[o]))
    /\ sent_to' = sent_to \cup {[node |-> n, uuid |-> o_uuid[o]]}
    /\ o_sent' = [o_sent EXCEPT ![o] = TRUE]
    /\ o_pc' = [o_pc EXCEPT ![o] = "up_wait"]
    /\ UNCHANGED <<active_connections, rw_readers, rw_writer, m_pc, m_next,
                   nodes_db, files_db, next_uuid, link_state, peer_kind, disk,
                   acked, returned_uuids, o_kind, o_uuid, o_data, o_reply,
                   o_result, o_after_upload>>

\* get_appropriate_node_for on an empty map: NotConnectedToAnyNode, and `?`
\* returns it from upload_file, dropping the read hold
UploadNoNode(o) ==
    /\ FrontFrame
    /\ o_pc[o] = "up_select"
    /\ rw_writer = "none"
    /\ active_connections = {}
    /\ rw_readers' = [rw_readers EXCEPT ![o] = 0]
    /\ o_result' = [o_result EXCEPT ![o] = Msg("NotConnectedToAnyNode", <<>>)]
    /\ o_data' = [o_data EXCEPT ![o] = <<>>]
    /\ o_pc' = [o_pc EXCEPT ![o] = "done"]
    /\ UNCHANGED <<active_connections, rw_writer, m_pc, m_next, nodes_db, files_db,
                   next_uuid, link_state, peer_kind, inbox, disk, acked, sent_to,
                   returned_uuids, o_kind, o_uuid, o_node, o_sent, o_reply,
                   o_after_upload>>

\* write_message fails on the dead link of the operation: communicate
\* returns ClientDisconnected
CommunicateFail(o) ==
    /\ FrontFrame
    /\ o_pc[o] \in {"up_wait", "get_wait"}
    /\ o_reply[o].kind = "none"
    /\ link_state[o_node[o]] = "dead"
    /\ o_reply' = [o_reply EXCEPT ![o] = Msg("ClientDisconnected", <<>>)]
    /\ UNCHANGED <<active_connections, rw_readers, rw_writer, m_pc, m_next,
                   nodes_db, files_db, next_uuid, link_state, peer_kind, inbox, disk,
                   acked, sent_to, returned_uuids, o_pc, o_kind, o_uuid, o_data,
                   o_node, o_sent, o_result, o_after_upload>>

\* what upload_file returns for a reply it does not accept
UploadError(reply) ==
    IF reply.kind = "ClientDisconnected"
      THEN Msg("ConnectionError", <<>>) ELSE Msg("UnexpectedResponse", <<>>)

\* upload_file after communicate: on Ack the read hold is dropped and the
\* files row is inserted; otherwise the error is returned
UploadFinish(o) ==
    /\ FrontFrame
    /\ o_pc[o] = "up_wait"
    /\ o_reply[o].kind # "none"
    /\ rw_readers' = [rw_readers EXCEPT ![o] = 0]
    /\ IF UploadAccepts(o_reply[o])
         THEN /\ files_db' = files_db \cup {[uuid |-> o_uuid[o], node |-> o_node[o]]}
              /\ returned_uuids' = returned_uuids \cup {o_uuid[o]}
              /\ o_result' = [o_result EXCEPT ![o] = Msg("Ok", o_data[o])]
         ELSE /\ o_result' = [o_result EXCEPT ![o] = UploadError(o_reply[o])]
              /\ UNCHANGED <<files_db, returned_uuids>>
    /\ o_data' = [o_data EXCEPT ![o] = <<>>]
    /\ o_reply' = [o_reply EXCEPT ![o] = NoReply]
    /\ o_pc' = [o_pc EXCEPT ![o] = "done"]
    /\ UNCHANGED <<active_connections, rw_writer, m_pc, m_next, nodes_db, next_uuid,
                   link_state, peer_kind, inbox, disk, acked, sent_to, o_kind,
                   o_uuid, o_node, o_sent, o_after_upload>>

\* the rows of files joined with nodes for a UUID
FileRows(u) == {r \in files_db : r.uuid = u /\ r.node \in nodes_db}
RowNode(u) == (CHOOSE r \in FileRows(u) : TRUE).node

\* get_file: the query finds no row, UnknownUUID
GetUnknown(o, u) ==
    /\ FrontFrame
    /\ MayStartOp(o)
    /\ FileRows(u) = {}
    /\ o_kind' = [o_kind EXCEPT ![o] = "get"]
    /\ o_uuid' = [o_uuid EXCEPT ![o] = u]
    /\ o_result' = [o_result EXCEPT ![o] = Msg("UnknownUUID", <<>>)]
    /\ o_after_upload' = [o_after_upload EXCEPT ![o] = u \in returned_uuids]
    /\ o_pc' = [o_pc EXCEPT ![o] = "done"]
    /\ UNCHANGED <<active_connections, rw_readers, rw_writer, m_pc, m_next,
                   nodes_db, files_db, next_uuid, link_state, peer_kind, inbox, disk,
                   acked, sent_to, returned_uuids, o_data, o_node, o_sent, o_reply>>

\* get_file: the query finds the row; under a read hold
\* active_connections.get(&id) finds no link: NotConnectedToNode
GetNotConnected(o, u) ==
    /\ FrontFrame
    /\ MayStartOp(o)
    /\ FileRows(u) # {}
    /\ rw_writer = "none"
    /\ ~MapHas(active_connections, RowNode(u))
    /\ o_kind' = [o_kind EXCEPT ![o] = "get"]
    /\ o_uuid' = [o_uuid EXCEPT ![o] = u]
    /\ o_node' = [o_node EXCEPT ![o] = RowNode(u)]
    /\ o_result' = [o_result EXCEPT ![o] = Msg("NotConnectedToNode", <<>>)]
    /\ o_after_upload' = [o_after_upload EXCEPT ![o] = u \in returned_uuids]
    /\ o_pc' = [o_pc EXCEPT ![o] = "done"]
    /\ UNCHANGED <<active_connections, rw_readers, rw_writer, m_pc, m_next,
                   nodes_db, files_db, next_uuid, link_state, peer_kind, inbox, disk,
                   acked, sent_to, returned_uuids, o_data, o_sent, o_reply>>

\* get_file: the query finds the row; under a read hold the link is cloned,
\* the hold dropped, and conn.communicate(ReadFile(uuid)) writes the request
GetSend(o, u) ==
    /\ FrontFrame
    /\ MayStartOp(o)
    /\ FileRows(u) # {}
    /\ rw_writer = "none"
    /\ MapHas(active_connections, RowNode(u))
    /\ o_kind' = [o_kind EXCEPT ![o] = "get"]
    /\ o_uuid' = [o_uuid EXCEPT ![o] = u]
    /\ o_node' = [o_node EXCEPT ![o] = RowNode(u)]
    /\ o_after_upload' = [o_after_upload EXCEPT ![o] = u \in returned_uuids]
    /\ inbox' = InboxAfterSend(RowNode(u), Request(o, "ReadFile", u, <<>>))
    /\ o_sent' = [o_sent EXCEPT ![o] = TRUE]
    /\ o_pc' = [o_pc EXCEPT ![o] = "get_wait"]
    /\ UNCHANGED <<active_connections, rw_readers, rw_writer, m_pc, m_next,
                   nodes_db, files_db, next_uuid, link_state, peer_kind, disk,
                   acked, sent_to, returned_uuids, o_data, o_reply, o_result>>

\* get_file after communicate
GetFinish(o) ==
    /\ FrontFrame
    /\ o_pc[o] = "get_wait"
    /\ o_reply[o].kind # "none"
    /\ o_result' = [o_result EXCEPT ![o] = GetFileResult(o_reply[o])]
    /\ o_reply' = [o_reply EXCEPT ![o] = [o_reply[o] EXCEPT !.data = <<>>]]
    /\ o_pc' = [o_pc EXCEPT ![o] = "done"]
    /\ UNCHANGED <<active_connections, rw_readers, rw_writer, m_pc, m_next,
                   nodes_db, files_db, next_uuid, link_state, peer_kind, inbox, disk,
                   acked, sent_to, returned_uuids, o_kind, o_uuid, o_data, o_node,
                   o_sent, o_after_upload>>

\* the storage node's per-connection task takes the next request, handles it
\* and writes the reply, which the link hands to the waiting call
Serve(n) ==
    /\ FrontFrame
    /\ link_state[n] = "up"
    /\ peer_kind[n] = "bnuystore"
    /\ inbox[n] # <<>>
    /\ ~HandleMessage(disk[n], Head(inbox[n])).panic
    /\ LET req == Head(inbox[n])
           h == HandleMessage(disk[n], req)
       IN /\ disk' = [disk EXCEPT ![n] = h.disk]
          /\ o_reply' = [o_reply EXCEPT ![req.op] = h.reply]
          /\ acked' = IF h.reply.kind = "Ack"
                        THEN acked \cup {[node |-> n, uuid |-> req.uuid]} ELSE acked
    /\ inbox' = [inbox EXCEPT ![n] = Tail(@)]
    /\ UNCHANGED <<active_connections, rw_readers, rw_writer, m_pc, m_next,
                   nodes_db, files_db, next_uuid, link_state, peer_kind,
                   returned_uuids, o_pc, o_kind, o_uuid, o_data, o_node, o_sent,
                   o_result, o_after_upload, sent_to>>

\* handle_message panics: the per-connection task dies and its socket closes
ServePanic(n) ==
    /\ FrontFrame
    /\ link_state[n] = "up"
    /\ peer_kind[n] = "bnuystore"
    /\ inbox[n] # <<>>
    /\ HandleMessage(disk[n], Head(inbox[n])).panic
    /\ link_state' = [link_state EXCEPT ![n] = "dead"]
    /\ o_reply' = RepliesAfterDeath(n)
    /\ inbox' = [inbox EXCEPT ![n] = <<>>]
    /\ UNCHANGED <<active_connections, rw_readers, rw_writer, m_pc, m_next,
                   nodes_db, files_db, next_uuid, peer_kind, disk, acked, sent_to,
                   returned_uuids, o_pc, o_kind, o_uuid, o_data, o_node, o_sent,
                   o_result, o_after_upload>>

\* a peer that is not this repository's storage node answers the next request
ServeOther(n, r) ==
    /\ FrontFrame
    /\ link_state[n] = "up"
    /\ peer_kind[n] = "other"
    /\ inbox[n] # <<>>
    /\ r \in OtherReplies
    /\ LET req == Head(inbox[n])
       IN /\ o_reply' = [o_reply EXCEPT ![req.op] = r]
          /\ acked' = IF r.kind = "Ack" /\ req.kind = "WriteFile"
                        THEN acked \cup {[node |-> n, uuid |-> req.uuid]} ELSE acked
    /\ inbox' = [inbox EXCEPT ![n] = Tail(@)]
    /\ UNCHANGED <<active_connections, rw_readers, rw_writer, m_pc, m_next,
                   nodes_db, files_db, next_uuid, link_state, peer_kind, disk,
                   returned_uuids, o_pc, o_kind, o_uuid, o_data, o_node, o_sent,
                   o_result, o_after_upload, sent_to>>

\* the connection of a link is lost: its receive task hits a decode error
LinkFault(n) ==
    /\ FrontFrame
    /\ link_state[n] = "up"
    /\ link_state' = [link_state EXCEPT ![n] = "dead"]
    /\ o_reply' = RepliesAfterDeath(n)
    /\ inbox' = [inbox EXCEPT ![n] = <<>>]
    /\ UNCHANGED <<active_connections, rw_readers, rw_writer, m_pc, m_next,
                   nodes_db, files_db, next_uuid, peer_kind, disk, acked, sent_to,
                   returned_uuids, o_pc, o_kind, o_uuid, o_data, o_node, o_sent,
                   o_result, o_after_upload>>

NextFront ==
    \/ MonitorConsistent
    \/ MonitorAcquire
    \/ \E k \in {"bnuystore", "other"} : MonitorDialOk(k)
    \/ MonitorDialFail
    \/ MonitorReturn
    \/ \E o \in Ops, d \in DataSet : UploadRead(o, d)
    \/ \E o \in Ops, n \in Nodes : UploadSelect(o, n)
    \/ \E o \in Ops : UploadNoNode(o)
    \/ \E o \in Ops : CommunicateFail(o)
    \/ \E o \in Ops : UploadFinish(o)
    \/ \E o \in Ops, u \in FileUuids : GetUnknown(o, u)
    \/ \E o \in Ops, u \in FileUuids : GetNotConnected(o, u)
    \/ \E o \in Ops, u \in FileUuids : GetSend(o, u)
    \/ \E o \in Ops : GetFinish(o)
    \/ \E n \in Nodes : Serve(n)
    \/ \E n \in Nodes : ServePanic(n)
    \/ \E n \in Nodes, r \in OtherReplies : ServeOther(n, r)
    \/ \E n \in Nodes : LinkFault(n)

SpecFront == Init /\ [][NextFront]_vars

\* the steps of tasks that are already running: the monitor task, the
\* storage nodes' connection tasks, and calls past their first await. New
\* calls and link faults come from outside
TaskStep ==
    \/ MonitorConsistent
    \/ MonitorAcquire
    \/ \E k \in {"bnuystore", "other"} : MonitorDialOk(k)
    \/ MonitorDialFail
    \/ MonitorReturn
    \/ \E o \in Ops, n \in Nodes : UploadSelect(o, n)
    \/ \E o \in Ops : UploadNoNode(o)
    \/ \E o \in Ops : UploadFinish(o)
    \/ \E o \in Ops : GetFinish(o)
    \/ \E n \in Nodes : Serve(n)
    \/ \E n \in Nodes : ServePanic(n)
    \/ \E n \in Nodes, r \in OtherReplies : ServeOther(n, r)

\* the runtime schedules every task that can take a step
FairSpecFront == SpecFront /\ WF_vars(TaskStep)

(***************************************************************************)
(* Storage-node server: the task spawned for one accepted connection.      *)
(***************************************************************************)

ReqIds == 0..MaxReqId

\* the messages a peer can put in a frame: every variant of Message
ServerMessages ==
    {[kind |-> "GetVersion", uuid |-> 0, data |-> <<>>]}
    \cup {[kind |-> k, uuid |-> u, data |-> <<>>] : k \in {"ReadFile", "DeleteFile"}, u \in Uuids}
    \cup {[kind |-> "WriteFile", uuid |-> u, data |-> d] : u \in Uuids, d \in DataSet}
    \cup {[kind |-> k, uuid |-> 0, data |-> <<>>] :
             k \in {"MyVersionIs", "FileContents", "Ack", "Error"}}

\* the MessageID the task passes to write_message: the one parse_message gave
ReplyId_Zero(id) == 0
ReplyId(id) == id

\* the blob of a UUID in the data folder (none: empty)
BlobOf(d, u) == IF u \in DOMAIN d THEN d[u] ELSE <<>>

\* what a failed FileLock::write may leave behind: nothing (open failed) or
\* the file with a proper prefix of the data written
FailedWrites(d, u, data) ==
    {d} \cup {DiskWrite(d, u, SubSeq(data, 1, k)) : k \in 0..(Len(data) - 1)}

\* parse_message returns Ok((id, message))
ServerParse(id, m) ==
    /\ ServerFrame
    /\ sv_pc = "parse"
    /\ sv_n < MaxFrames
    /\ sv_req' = [id |-> id, kind |-> m.kind, uuid |-> m.uuid, data |-> m.data]
    /\ sv_n' = sv_n + 1
    /\ sv_pc' = "handle"
    /\ UNCHANGED <<sv_disk, sv_sent, sv_failed>>

\* parse_message returns ParseJsonError or ParseUuidError: logged, `continue`
ServerParseBad ==
    /\ ServerFrame
    /\ sv_pc = "parse"
    /\ sv_n < MaxFrames
    /\ sv_n' = sv_n + 1
    /\ UNCHANGED <<sv_pc, sv_req, sv_disk, sv_sent, sv_failed>>

\* parse_message returns IOError (the peer has closed): `break`
ServerStreamEnd ==
    /\ ServerFrame
    /\ sv_pc = "parse"
    /\ sv_pc' = "exited"
    /\ UNCHANGED <<sv_req, sv_disk, sv_sent, sv_failed, sv_n>>

\* handle_message returns Ok(reply) and write_message(stream, id, reply)
\* succeeds
ServerReply ==
    /\ ServerFrame
    /\ sv_pc = "handle"
    /\ ~HandleMessage(sv_disk, sv_req).panic
    /\ LET h == HandleMessage(sv_disk, sv_req)
       IN /\ sv_disk' = h.disk
          /\ sv_sent' = Append(sv_sent,
                 [req |-> sv_req,
                  reply |-> [id |-> ReplyId(sv_req.id), kind |-> h.reply.kind,
                             data |-> h.reply.data],
                  blob |-> BlobOf(sv_disk, sv_req.uuid)])
    /\ sv_req' = NoRequest
    /\ sv_pc' = "parse"
    /\ UNCHANGED <<sv_failed, sv_n>>

\* handle_message panics on the request itself: `expect` on the
\* NoFileWithUuid of a missing blob, todo!() for DeleteFile and the response
\* kinds. The task ends and the stream is dropped with it
ServerPanic ==
    /\ ServerFrame
    /\ sv_pc = "handle"
    /\ HandleMessage(sv_disk, sv_req).panic
    /\ sv_failed' = sv_failed \cup {sv_req}
    /\ sv_req' = NoRequest
    /\ sv_pc' = "panicked"
    /\ UNCHANGED <<sv_disk, sv_sent, sv_n>>

\* FileLock::read or FileLock::write returns IOError: the `expect` in
\* handle_message panics
ServerIoPanic ==
    /\ ServerFrame
    /\ sv_pc = "handle"
    /\ sv_req.kind \in {"ReadFile", "WriteFile"}
    /\ sv_disk' \in (IF sv_req.kind = "WriteFile"
                       THEN FailedWrites(sv_disk, sv_req.uuid, sv_req.data)
                       ELSE {sv_disk})
    /\ sv_failed' = sv_failed \cup {sv_req}
    /\ sv_req' = NoRequest
    /\ sv_pc' = "panicked"
    /\ UNCHANGED <<sv_sent, sv_n>>

\* write_message fails: expect("Could not send response") panics
ServerWritePanic ==
    /\ ServerFrame
    /\ sv_pc = "handle"
    /\ ~HandleMessage(sv_disk, sv_req).panic
    /\ sv_disk' = HandleMessage(sv_disk, sv_req).disk
    /\ sv_req' = NoRequest
    /\ sv_pc' = "panicked"
    /\ UNCHANGED <<sv_sent, sv_failed, sv_n>>

NextServer ==
    \/ \E id \in ReqIds, m \in ServerMessages : ServerParse(id, m)
    \/ ServerParseBad
    \/ ServerStreamEnd
    \/ ServerReply
    \/ ServerPanic
    \/ ServerIoPanic
    \/ ServerWritePanic

SpecServer == Init /\ [][NextServer]_vars

(***************************************************************************)
(* Claims about the storage-node server.                                   *)
(***************************************************************************)

\* the reply kind and payload handle_message's arms give each request kind
ExpectedReply(e) ==
    CASE e.req.kind = "GetVersion" -> e.reply.kind = "MyVersionIs"
      [] e.req.kind = "ReadFile" ->
            e.reply.kind = "FileContents" /\ e.reply.data = e.blob
      [] e.req.kind = "WriteFile" -> e.reply.kind = "Ack"
      [] OTHER -> FALSE

\* C11: every reply the server writes carries the MessageID of the request
\* it answers, and its kind matches the request: GetVersion gets MyVersionIs,
\* ReadFile(u) gets FileContents with the blob of u, WriteFile gets Ack.
C11_ReplyMatchesRequest ==
    \A i \in 1..Len(sv_sent) :
        /\ sv_sent[i].reply.id = sv_sent[i].req.id
        /\ ExpectedReply(sv_sent[i])

\* C11 witness: on one connection a WriteFile with ID 1 was answered Ack and
\* then a ReadFile with ID 0 was answered with the blob.
C11_Witness ==
    /\ Len(sv_sent) = 2
    /\ sv_sent[1].req.kind = "WriteFile" /\ sv_sent[1].req.id = 1
    /\ sv_sent[2].req.kind = "ReadFile" /\ sv_sent[2].req.id = 0
    /\ sv_sent[2].req.uuid = 2 /\ sv_sent[2].reply.data = <<2, 1>>

\* request f has been answered with a reply of kind k carrying f's ID
Answered(f, k) ==
    \E i \in 1..Len(sv_sent) :
        sv_sent[i].req = f /\ sv_sent[i].reply.kind = k /\ sv_sent[i].reply.id = f.id

\* C12: when handling a ReadFile or WriteFile fails (no blob for the UUID,
\* or an IO error), the server replies Error with the request's ID and the
\* per-connection task keeps serving.
C12_FailureRepliesError ==
    \A f \in sv_failed : f.kind \in {"ReadFile", "WriteFile"} =>
        Answered(f, "Error") /\ sv_pc \in {"parse", "handle"}

\* C13: a DeleteFile or a response kind (MyVersionIs, FileContents, Ack,
\* Error) received by the server is still answered under the request's ID
\* (Ack after a delete, otherwise Error) and never ends the task.
C13_UnservedKindsAnswered ==
    \A f \in sv_failed : f.kind \notin {"ReadFile", "WriteFile"} =>
        /\ Answered(f, "Error") \/ (f.kind = "DeleteFile" /\ Answered(f, "Ack"))
        /\ sv_pc \in {"parse", "handle"}

\* C37: a ReadFile(u) served right after a WriteFile(u, bytes) that was
\* answered Ack returns exactly bytes, also when the blob of u existed
\* before with longer content.
C37_ReadReturnsWritten ==
    \A i \in 1..(Len(sv_sent) - 1) :
        (/\ sv_sent[i].req.kind = "WriteFile" /\ sv_sent[i].reply.kind = "Ack"
         /\ sv_sent[i + 1].req.kind = "ReadFile"
         /\ sv_sent[i + 1].req.uuid = sv_sent[i].req.uuid) =>
            /\ sv_sent[i + 1].reply.kind = "FileContents"
            /\ sv_sent[i + 1].reply.data = sv_sent[i].req.data

(***************************************************************************)
(* Wire codec: write_message, parse_message, MessageOverWire. Bytes are    *)
(* numbers 0..255; strings are sequences of UTF-8 bytes.                   *)
(***************************************************************************)

Kinds == {"GetVersion", "ReadFile", "WriteFile", "DeleteFile",
          "MyVersionIs", "FileContents", "Ack", "Error"}
UuidKinds == {"ReadFile", "WriteFile", "DeleteFile"}
StringKinds == {"MyVersionIs", "Error"}
PayloadKinds == {"WriteFile", "FileContents"}

\* the variant's name as serde writes it
VariantName(k) ==
    CASE k = "GetVersion" -> <<71, 101, 116, 86, 101, 114, 115, 105, 111, 110>>
      [] k = "ReadFile" -> <<82, 101, 97, 100, 70, 105, 108, 101>>
      [] k = "WriteFile" -> <<87, 114, 105, 116, 101, 70, 105, 108, 101>>
      [] k = "DeleteFile" -> <<68, 101, 108, 101, 116, 101, 70, 105, 108, 101>>
      [] k = "MyVersionIs" -> <<77, 121, 86, 101, 114, 115, 105, 111, 110, 73, 115>>
      [] k = "FileContents" -> <<70, 105, 108, 101, 67, 111, 110, 116, 101, 110, 116, 115>>
      [] k = "Ack" -> <<65, 99, 107>>
      [] k = "Error" -> <<69, 114, 114, 111, 114>>

\* write_u32 / write_u64: big-endian, with the widths halved (a u32 takes two
\* bytes, a u64 four) to stay inside TLC's integers
U32BE(n) == <<(n \div 256) % 256, n % 256>>
U64BE(n) == <<0, 0>> \o U32BE(n)
\* read_u32 / read_u64
RECURSIVE FromBE(_)
FromBE(b) == IF b = <<>> THEN 0 ELSE FromBE(SubSeq(b, 1, Len(b) - 1)) * 256 + b[Len(b)]
\* `len as u32`, at the halved width
AsU32(n) == n % 65536

\* stringify_uuid, with the UUID scaled to one byte and the hyphenated form
\* to "h-h" in lower-case hex
HexDigit(n) == IF n < 10 THEN 48 + n ELSE 87 + n
stringify_uuid(u) == <<HexDigit(u \div 16), 45, HexDigit(u % 16)>>
\* Uuid::try_parse: hyphenated or simple form, hex digits of either case
HexValue(c) ==
    IF c \in 48..57 THEN c - 48
    ELSE IF c \in 97..102 THEN c - 87
    ELSE IF c \in 65..70 THEN c - 55
    ELSE -1
parse_uuid(str) ==
    LET digits == IF Len(str) = 3 /\ str[2] = 45 THEN <<str[1], str[3]>>
                  ELSE IF Len(str) = 2 THEN str
                  ELSE <<>>
    IN IF digits # <<>> /\ HexValue(digits[1]) >= 0 /\ HexValue(digits[2]) >= 0
         THEN [ok |-> TRUE, uuid |-> HexValue(digits[1]) * 16 + HexValue(digits[2])]
         ELSE [ok |-> FALSE, uuid |-> 0]

\* serde_json's string escaping: quote, backslash and newline
EscapeByte_Raw(c) == <<c>>
EscapeByte(c) ==
    IF c = 34 THEN <<92, 34>>
    ELSE IF c = 92 THEN <<92, 92>>
    ELSE IF c = 10 THEN <<92, 110>>
    ELSE <<c>>
RECURSIVE JsonEscape(_)
JsonEscape(str) ==
    IF str = <<>> THEN <<>> ELSE EscapeByte(Head(str)) \o JsonEscape(Tail(str))
JsonString(str) == <<34>> \o JsonEscape(str) \o <<34>>

\* serde_json reading a string that starts after the quote at position i - 1:
\* the unescaped bytes and the position after the closing quote
RECURSIVE ScanString(_, _, _)
ScanString(e, i, acc) ==
    IF i > Len(e) THEN [ok |-> FALSE, str |-> <<>>, next |-> i]
    ELSE IF e[i] = 34 THEN [ok |-> TRUE, str |-> acc, next |-> i + 1]
    ELSE IF e[i] = 92
      THEN IF i + 1 > Len(e) THEN [ok |-> FALSE, str |-> <<>>, next |-> i]
           ELSE IF e[i + 1] = 34 THEN ScanString(e, i + 2, Append(acc, 34))
           ELSE IF e[i + 1] = 92 THEN ScanString(e, i + 2, Append(acc, 92))
           ELSE IF e[i + 1] = 110 THEN ScanString(e, i + 2, Append(acc, 10))
           ELSE [ok |-> FALSE, str |-> <<>>, next |-> i]
    ELSE ScanString(e, i + 1, Append(acc, e[i]))
ReadString(e, i) ==
    IF i <= Len(e) /\ e[i] = 34 THEN ScanString(e, i + 1, <<>>)
    ELSE [ok |-> FALSE, str |-> <<>>, next |-> i]

\* a MessageOverWire: the variant and its String field
Wire(k, str) == [kind |-> k, str |-> str]
BadWire == [ok |-> FALSE, wire |-> Wire("none", <<>>)]

\* serde_json::to_vec(&wire_message): "Name" for a unit variant,
\* {"Name":"field"} for a variant with a String
ToJson(w) ==
    IF w.kind \in UuidKinds \cup StringKinds
      THEN <<123>> \o JsonString(VariantName(w.kind)) \o <<58>> \o JsonString(w.str) \o <<125>>
      ELSE JsonString(VariantName(w.kind))

\* serde_json::from_slice::<MessageOverWire>
KindNamed(name) == {k \in Kinds : VariantName(k) = name}
FromJson(e) ==
    IF e # <<>> /\ e[1] = 34
      THEN LET n == ReadString(e, 1)
           IN IF n.ok /\ n.next = Len(e) + 1
                 /\ KindNamed(n.str) \ (UuidKinds \cup StringKinds) # {}
                THEN [ok |-> TRUE, wire |-> Wire(CHOOSE k \in KindNamed(n.str) : TRUE, <<>>)]
                ELSE BadWire
    ELSE IF e # <<>> /\ e[1] = 123
      THEN LET n == ReadString(e, 2)
               colon == n.ok /\ n.next <= Len(e) /\ e[n.next] = 58
               v == IF colon THEN ReadString(e, n.next + 1)
                    ELSE [ok |-> FALSE, str |-> <<>>, next |-> 0]
           IN IF v.ok /\ v.next = Len(e) /\ e[v.next] = 125
                 /\ KindNamed(n.str) \cap (UuidKinds \cup StringKinds) # {}
                THEN [ok |-> TRUE, wire |-> Wire(CHOOSE k \in KindNamed(n.str) : TRUE, v.str)]
                ELSE BadWire
    ELSE BadWire

\* MessageOverWire::from_message: the envelope and the separate payload
from_message(m) ==
    [wire |-> Wire(m.kind, IF m.kind \in UuidKinds THEN stringify_uuid(m.uuid)
                           ELSE IF m.kind \in StringKinds THEN m.str
                           ELSE <<>>),
     data |-> IF m.kind \in PayloadKinds THEN m.data ELSE <<>>]

\* MessageOverWire::to_message(self, data)
to_message(w, data) ==
    IF w.kind \in UuidKinds
      THEN LET u == parse_uuid(w.str)
           IN [ok |-> u.ok,
               msg |-> Message(w.kind, u.uuid, <<>>,
                               IF w.kind \in PayloadKinds THEN data ELSE <<>>)]
      ELSE [ok |-> TRUE,
            msg |-> Message(w.kind, 0, IF w.kind \in StringKinds THEN w.str ELSE <<>>,
                            IF w.kind \in PayloadKinds THEN data ELSE <<>>)]

\* write_message(stream, id, message): the bytes put on the stream
write_message(id, m) ==
    LET fm == from_message(m)
        env == ToJson(fm.wire)
    IN U32BE(id) \o U32BE(AsU32(Len(env))) \o U64BE(Len(fm.data)) \o env \o fm.data

ParseError(code) == [NoParse EXCEPT !.err = code]

\* parse_message(stream): the header, read_exact of envelope and payload,
\* then the JSON and the UUID
parse_message(b) ==
    IF Len(b) < 8 THEN ParseError("IOError")
    ELSE LET id == FromBE(SubSeq(b, 1, 2))
             message_length == FromBE(SubSeq(b, 3, 4))
             data_length == FromBE(SubSeq(b, 5, 8))
             end == 8 + message_length + data_length
         IN IF Len(b) < end THEN ParseError("IOError")
            ELSE LET w == FromJson(SubSeq(b, 9, 8 + message_length))
                     m == to_message(w.wire, SubSeq(b, 9 + message_length, end))
                 IN IF ~w.ok THEN [ParseError("ParseJsonError") EXCEPT
                                       !.rest = SubSeq(b, end + 1, Len(b))]
                    ELSE IF ~m.ok THEN [ParseError("ParseUuidError") EXCEPT
                                           !.rest = SubSeq(b, end + 1, Len(b))]
                    ELSE [ok |-> TRUE, err |-> "none", id |-> id, msg |-> m.msg,
                          rest |-> SubSeq(b, end + 1, Len(b))]

\* the inputs: MessageIDs, UUIDs, String fields, payloads, following bytes
CodecIds == {0, 1, 258, 65535}
CodecUuids == {0, 26, 171, 255}
CodecStrings == {<<>>, <<97>>, <<34>>, <<92, 110>>, <<10, 34, 125>>}
CodecPayloads == {<<>>, <<0>>, <<34, 255>>}
CodecTails == {<<>>, <<0, 0, 1>>}
CodecMessages ==
    {Message(k, 0, <<>>, <<>>) : k \in {"GetVersion", "Ack"}}
    \cup {Message(k, u, <<>>, <<>>) : k \in {"ReadFile", "DeleteFile"}, u \in CodecUuids}
    \cup {Message("WriteFile", u, <<>>, d) : u \in CodecUuids, d \in CodecPayloads}
    \cup {Message(k, 0, str, <<>>) : k \in StringKinds, str \in CodecStrings}
    \cup {Message("FileContents", 0, <<>>, d) : d \in CodecPayloads}

\* write_message(stream, id, m), with other bytes following on the stream
CodecWrite(id, m, tail) ==
    /\ CodecFrame
    /\ cd_pc = "start"
    /\ cd_id' = id
    /\ cd_msg' = m
    /\ cd_tail' = tail
    /\ cd_stream' = write_message(id, m) \o tail
    /\ cd_pc' = "written"
    /\ UNCHANGED <<cd_out, cd_hdr, cd_buffered>>

\* parse_message(stream)
CodecParse ==
    /\ CodecFrame
    /\ cd_pc = "written"
    /\ cd_out' = parse_message(cd_stream)
    /\ cd_stream' = parse_message(cd_stream).rest
    /\ cd_pc' = "parsed"
    /\ UNCHANGED <<cd_id, cd_msg, cd_tail, cd_hdr, cd_buffered>>

\* Vec::try_reserve(n) when the allocator can give mem bytes
try_reserve(n, mem) == n <= mem

\* parse_message under such an allocator: RequestTooLarge is what a failed
\* try_reserve becomes; a reserved buffer is resized and read_exact fills it
parse_message_in(b, mem) ==
    IF Len(b) < 8 THEN ParseError("IOError")
    ELSE LET message_length == FromBE(SubSeq(b, 3, 4))
             data_length == FromBE(SubSeq(b, 5, 8))
             body == SubSeq(b, 9, Len(b))
         IN IF ~try_reserve(message_length, mem)
              THEN [ParseError("RequestTooLarge") EXCEPT !.rest = body]
            ELSE IF Len(body) < message_length THEN ParseError("IOError")
            ELSE IF ~try_reserve(data_length, mem)
              THEN [ParseError("RequestTooLarge") EXCEPT
                       !.rest = SubSeq(body, message_length + 1, Len(body))]
            ELSE parse_message(b)

\* the size of the largest buffer parse_message resized on the way
Buffered(b, mem) ==
    IF Len(b) < 8 THEN 0
    ELSE LET message_length == FromBE(SubSeq(b, 3, 4))
             data_length == FromBE(SubSeq(b, 5, 8))
         IN IF ~try_reserve(message_length, mem) THEN 0
            ELSE IF Len(b) - 8 < message_length \/ ~try_reserve(data_length, mem)
              THEN message_length
            ELSE IF data_length > message_length THEN data_length
            ELSE message_length

\* frames of the peer's making: the length fields of the header, the bytes
\* that follow it, and what the allocator can give
RawMessageLengths == {<<0, 0>>, <<0, 1>>, U32BE(MaxBody + 1), <<255, 255>>}
RawDataLengths == {<<0, 0, 0, 0>>, <<0, 0, 0, 1>>, U64BE(MaxBody + 1), <<1, 0, 0, 0>>}
RawBodies == {[i \in 1..n |-> 0] : n \in 0..(MaxBody + 2)}
CodecMemory == {0, MaxBody, 2147483647}

\* parse_message(stream) on a frame of the peer's making
CodecFeed(ml, dl, body, mem) ==
    /\ CodecFrame
    /\ cd_pc = "start"
    /\ cd_hdr' = [message_length |-> FromBE(ml), data_length |-> FromBE(dl)]
    /\ cd_tail' = body
    /\ LET b == U32BE(0) \o ml \o dl \o body
       IN /\ cd_out' = parse_message_in(b, mem)
          /\ cd_stream' = parse_message_in(b, mem).rest
          /\ cd_buffered' = Buffered(b, mem)
    /\ cd_pc' = "fed"
    /\ UNCHANGED <<cd_id, cd_msg>>

NextCodec ==
    \/ \E id \in CodecIds, m \in CodecMessages, tail \in CodecTails : CodecWrite(id, m, tail)
    \/ CodecParse
    \/ \E ml \in RawMessageLengths, dl \in RawDataLengths, body \in RawBodies,
          mem \in CodecMemory : CodecFeed(ml, dl, body, mem)

SpecCodec == Init /\ [][NextCodec]_vars

\* C17: parse_message applied to the bytes write_message(id, m) produced
\* yields (id, m) with the same variant, UUID or string field and payload,
\* and consumes exactly the written bytes.
C17_RoundTrip ==
    cd_pc = "parsed" =>
        /\ cd_out.ok
        /\ cd_out.id = cd_id
        /\ cd_out.msg = cd_msg
        /\ cd_out.rest = cd_tail

\* C17 witness: an Error message whose string holds a newline, a quote and a
\* brace came back intact under the largest MessageID, with the bytes after
\* the frame left on the stream.
C17_Witness ==
    /\ cd_pc = "parsed"
    /\ cd_id = 65535
    /\ cd_out.ok
    /\ cd_out.msg = Message("Error", 0, <<10, 34, 125>>, <<>>)
    /\ cd_stream = <<0, 0, 1>>

\* C36: when parse_message fails with a non-IO error on a frame the peer
\* sent in full, the envelope and the payload of that frame have been
\* consumed: the bytes left on the stream are those after the frame, where
\* the next parse_message of the server's loop starts.
C36_FailedFrameConsumed ==
    (/\ cd_pc = "fed"
     /\ cd_out.err \in {"ParseJsonError", "ParseUuidError", "RequestTooLarge"}
     /\ Len(cd_tail) >= cd_hdr.message_length + cd_hdr.data_length) =>
        cd_out.rest = SubSeq(cd_tail, cd_hdr.message_length + cd_hdr.data_length + 1,
                             Len(cd_tail))

\* C27: parse_message fails with RequestTooLarge when the envelope length
\* or the payload length of a frame header exceeds the cap, without
\* buffering the oversized body. (Frames that end before an envelope of
\* allowed length is complete are left out.)
C27_OversizedRefused ==
    (/\ cd_pc = "fed"
     /\ cd_hdr.message_length > MaxBody \/ cd_hdr.data_length > MaxBody
     /\ cd_hdr.message_length <= MaxBody => Len(cd_tail) >= cd_hdr.message_length) =>
        /\ cd_out.err = "RequestTooLarge"
        /\ cd_buffered <= MaxBody

(***************************************************************************)
(* SFTP path resolution: normalize_path, absolutize_path, opendir. A path  *)
(* is a sequence of characters; the directory tree is / with the           *)
(* directory a in it, which is the user's home and holds a directory a.    *)
(***************************************************************************)

PathChars == {"/", ".", "a"}
RECURSIVE PathsOfLen(_)
PathsOfLen(n) ==
    IF n = 0 THEN {<<>>}
    ELSE {Append(p, c) : p \in PathsOfLen(n - 1), c \in PathChars}
Paths == UNION {PathsOfLen(n) : n \in 0..MaxPathLen}

\* path.ends_with("/") ... &path[..path.len()-1]
StripTrailingSlash(p) ==
    IF p # <<>> /\ p[Len(p)] = "/" THEN SubSeq(p, 1, Len(p) - 1) ELSE p

\* path.split('/'): the empty string gives one empty part
RECURSIVE Split(_)
Split(p) ==
    IF \A i \in 1..Len(p) : p[i] # "/" THEN <<p>>
    ELSE LET i == CHOOSE i \in 1..Len(p) :
                      p[i] = "/" /\ \A j \in 1..(i - 1) : p[j] # "/"
         IN <<SubSeq(p, 1, i - 1)>> \o Split(SubSeq(p, i + 1, Len(p)))

\* the loop over the parts: ".." pops (empty stack: BadMessage), "." is
\* skipped, anything else, the empty part too, is pushed
RECURSIVE FoldParts(_, _)
FoldParts(todo, parts) ==
    IF todo = <<>> THEN [ok |-> TRUE, parts |-> parts]
    ELSE IF Head(todo) = <<".", ".">>
      THEN IF Len(parts) = 0 THEN [ok |-> FALSE, parts |-> <<>>]
           ELSE FoldParts(Tail(todo), SubSeq(parts, 1, Len(parts) - 1))
    ELSE IF Head(todo) = <<".">> THEN FoldParts(Tail(todo), parts)
    ELSE FoldParts(Tail(todo), Append(parts, Head(todo)))

\* canon: the parts joined with '/'
RECURSIVE Join(_)
Join(parts) ==
    IF parts = <<>> THEN <<>>
    ELSE IF Len(parts) = 1 THEN parts[1]
    ELSE parts[1] \o <<"/">> \o Join(Tail(parts))

normalize_path(p) ==
    LET r == FoldParts(Split(StripTrailingSlash(p)), <<>>)
    IN IF r.ok THEN SftpOk(Join(r.parts)) ELSE SftpErr("BadMessage")

\* absolutize_path: the base (None is the root) and the path under it
absolutize_path(p, home_found) ==
    LET n == normalize_path(p)
    IN IF ~n.ok THEN [NoAbs EXCEPT !.err = n.err]
       ELSE IF n.path # <<>> /\ n.path[1] = "/"
         THEN [ok |-> TRUE, base |-> "root", path |-> Tail(n.path), err |-> "none"]
       ELSE IF home_found
         THEN [ok |-> TRUE, base |-> "home", path |-> n.path, err |-> "none"]
       ELSE [NoAbs EXCEPT !.err = "Failure"]

\* directory_id_for_path's loop over path.split('/')
RECURSIVE FollowSegments(_, _)
FollowSegments(segs, dir) ==
    IF segs = <<>> THEN [ok |-> TRUE, dir |-> dir]
    ELSE LET rows == {r \in Directories : r.name = Head(segs) /\ r.parent = dir}
         IN IF rows = {} THEN [ok |-> FALSE, dir |-> 0]
            ELSE FollowSegments(Tail(segs), (CHOOSE r \in rows : TRUE).id)

directory_id_for_path(path, base) ==
    LET b == IF base = "root" THEN RootDirectory ELSE HomeDirectory
    IN IF Len(path) = 0 THEN [ok |-> TRUE, dir |-> b]
       ELSE FollowSegments(Split(path), b)

\* opendir through handle_from_path: the directory's handle, or the status
\* code (there are no files in the tree)
opendir(p, home_found) ==
    LET a == absolutize_path(p, home_found)
        d == directory_id_for_path(a.path, a.base)
    IN IF ~a.ok THEN [NoDir EXCEPT !.err = a.err]
       ELSE IF d.ok THEN [ok |-> TRUE, dir |-> d.dir, err |-> "none"]
       ELSE [NoDir EXCEPT !.err = "NoSuchFile"]

\* a request with a path arrives
SftpCall(p) ==
    /\ SftpFrame
    /\ sf_pc = "start"
    /\ sf_path' = p
    /\ sf_pc' = "called"
    /\ UNCHANGED <<sf_norm, sf_again, sf_abs, sf_dir>>

\* normalize_path on the path, and once more on its result
SftpNormalize ==
    /\ SftpFrame
    /\ sf_pc = "called"
    /\ sf_norm' = normalize_path(sf_path)
    /\ sf_again' = IF normalize_path(sf_path).ok
                     THEN normalize_path(normalize_path(sf_path).path)
                     ELSE sf_again
    /\ sf_pc' = "normalized"
    /\ UNCHANGED <<sf_path, sf_abs, sf_dir>>

\* opendir(id, path): absolutize_path, then the directory lookup
SftpOpendir(home_found) ==
    /\ SftpFrame
    /\ sf_pc = "normalized"
    /\ sf_abs' = absolutize_path(sf_path, home_found)
    /\ sf_dir' = opendir(sf_path, home_found)
    /\ sf_pc' = "resolved"
    /\ UNCHANGED <<sf_path, sf_norm, sf_again>>

NextSftp ==
    \/ \E p \in Paths : SftpCall(p)
    \/ SftpNormalize
    \/ \E home_found \in BOOLEAN : SftpOpendir(home_found)

SpecSftp == Init /\ [][NextSftp]_vars

\* C18: when normalize_path succeeds on p, normalizing its result succeeds
\* too and gives the same string.
C18_NormalizeIdempotent ==
    (sf_pc \in {"normalized", "resolved"} /\ sf_norm.ok) => sf_again = sf_norm

\* the parts of a path below its top: for an absolute path those after the
\* leading slash
PartsBelowTop(p) ==
    LET parts == Split(StripTrailingSlash(p))
    IN IF p # <<>> /\ p[1] = "/" THEN Tail(parts) ELSE parts

\* a ".." part of the path would climb above the top of the path
ClimbsAboveTop(p) == ~FoldParts(PartsBelowTop(p), <<>>).ok

\* C19: normalization fails with BadMessage whenever a ".." would climb
\* above the top of the path, for absolute paths as for relative ones, and
\* the path is resolved to no directory.
C19_ClimbingFails ==
    (sf_pc = "resolved" /\ ClimbsAboveTop(sf_path)) =>
        /\ sf_norm = SftpErr("BadMessage")
        /\ ~sf_dir.ok

\* C20: a path with a leading slash is resolved from the root directory,
\* never from the user's home: opendir "/" returns the root's handle.
C20_LeadingSlashIsRoot ==
    (sf_pc = "resolved" /\ sf_path # <<>> /\ sf_path[1] = "/") =>
        /\ sf_abs.ok => sf_abs.base = "root"
        /\ sf_path = <<"/">> => sf_dir = [ok |-> TRUE, dir |-> RootDirectory, err |-> "none"]

(***************************************************************************)
(* One SFTP session: handle_from_path, stat, opendir, readdir, open and    *)
(* close of SFTPConnection, over the tables above, and read, which uses    *)
(* none of the session's state. A database query answers or fails with an  *)
(* error of the driver; get_file hands read the blob or fails.             *)
(***************************************************************************)

\* full_path.rsplit_once('/'), or ("", full_path) without a slash
RSplitOnce(p) ==
    IF \A i \in 1..Len(p) : p[i] # "/" THEN [path |-> <<>>, file |-> p]
    ELSE LET i == CHOOSE i \in 1..Len(p) :
                      p[i] = "/" /\ \A j \in (i + 1)..Len(p) : p[j] # "/"
         IN [path |-> SubSeq(p, 1, i - 1), file |-> SubSeq(p, i + 1, Len(p))]

\* file_uuid_for_path: the parent directory, then the row of table files
file_uuid_for_path(full_path, base) ==
    LET sp == RSplitOnce(full_path)
        dir == directory_id_for_path(sp.path, base)
        rows == {r \in Files : dir.ok /\ r.name = sp.file /\ r.dir = dir.dir}
    IN IF ~dir.ok THEN [ok |-> FALSE, uuid |-> 0, err |-> "NoSuchDirectory"]
       ELSE IF rows = {} THEN [ok |-> FALSE, uuid |-> 0, err |-> "NoSuchFile"]
       ELSE [ok |-> TRUE, uuid |-> (CHOOSE r \in rows : TRUE).uuid, err |-> "none"]

\* handle_from_path: the directory if the lookup finds one; after any error
\* of that lookup the file; after any error of the file lookup NoSuchFile
handle_from_path(p, home_found, dir_db, file_db) ==
    LET a == absolutize_path(p, home_found)
        d == directory_id_for_path(a.path, a.base)
        f == file_uuid_for_path(a.path, a.base)
    IN IF ~a.ok THEN [ok |-> FALSE, handle |-> NoHandle, err |-> a.err]
       ELSE IF dir_db = "ok" /\ d.ok
         THEN [ok |-> TRUE, handle |-> Handle("d", d.dir), err |-> "none"]
       ELSE IF file_db = "ok" /\ f.ok
         THEN [ok |-> TRUE, handle |-> Handle("f", f.uuid), err |-> "none"]
       ELSE [ok |-> FALSE, handle |-> NoHandle, err |-> "NoSuchFile"]

\* list_directory and the two loops of readdir: one entry per file and per
\* directory in dir, with its name and the kind its permissions show
list_directory(dir) ==
    {[name |-> r.name, kind |-> "f"] : r \in {x \in Files : x.dir = dir}}
    \cup {[name |-> r.name, kind |-> "d"] : r \in {x \in Directories : x.parent = dir}}

\* the paths, handles, open flags, blobs and ranges the client and the
\* storage node come with
SessionPaths == {<<"/">>, <<"a">>, <<"b">>, <<"c">>, <<"/", "a", "/", "b">>, <<".", ".">>}
SessionHandles ==
    {Handle("d", d) : d \in DirectoryIds} \cup {Handle("f", u) : u \in HandleUuids}
    \cup {BadHandle}
OpenFlagSets == SUBSET {"CREATE", "EXCLUDE"} \cup {{"APPEND"}}
DbOutcomes == {"ok", "error"}
RECURSIVE BlobsOfLen(_)
BlobsOfLen(n) ==
    IF n = 0 THEN {<<>>} ELSE {Append(b, n + 6) : b \in BlobsOfLen(n - 1)}
Blobs == UNION {BlobsOfLen(n) : n \in 0..MaxBlob}
GetFileOutcomes == {[ok |-> TRUE, data |-> b] : b \in Blobs} \cup {NoBlob}
Ranges == 0..(MaxBlob + 1)

\* handle_from_path on every path and every outcome of its queries
HandleFromPath ==
    [x \in SessionPaths \X BOOLEAN \X DbOutcomes \X DbOutcomes |->
        handle_from_path(x[1], x[2], x[3], x[4])]

Returned(code) == [NoRet EXCEPT !.code = code]

\* stat(id, path), lstat(id, path): the attributes of the handle the path
\* resolves to, which show a file or a directory
Stat(p, home_found, dir_db, file_db) ==
    /\ SessionFrame
    /\ ss_req' = [NoReq EXCEPT !.op = "stat", !.path = p, !.home_found = home_found,
                               !.dir_db = dir_db, !.file_db = file_db]
    /\ LET h == HandleFromPath[<<p, home_found, dir_db, file_db>>]
       IN ss_ret' = IF h.ok THEN [Returned("Ok") EXCEPT !.handle = Handle(h.handle.kind, 0)]
                    ELSE Returned(h.err)
    /\ UNCHANGED <<directory_status, file_status, ss_listed>>

\* opendir(id, path)
Opendir(p, home_found, dir_db, file_db) ==
    /\ SessionFrame
    /\ ss_req' = [NoReq EXCEPT !.op = "opendir", !.path = p, !.home_found = home_found,
                               !.dir_db = dir_db, !.file_db = file_db]
    /\ LET h == HandleFromPath[<<p, home_found, dir_db, file_db>>]
       IN IF ~h.ok
            THEN /\ ss_ret' = Returned(h.err)
                 /\ UNCHANGED directory_status
          ELSE IF h.handle.kind # "d"
            THEN /\ ss_ret' = Returned("NoSuchFile")
                 /\ UNCHANGED directory_status
          ELSE /\ directory_status' = [directory_status EXCEPT ![h.handle.id] = "Unread"]
               /\ ss_ret' = [Returned("Ok") EXCEPT !.handle = h.handle]
    /\ UNCHANGED <<file_status, ss_listed>>

\* readdir(id, handle): the state is flipped to Read before the listing is
\* fetched
Readdir(h, list_ok) ==
    /\ SessionFrame
    /\ ss_req' = [NoReq EXCEPT !.op = "readdir", !.handle = h, !.list_ok = list_ok]
    /\ IF h.kind # "d" \/ directory_status[h.id] = "none"
         THEN /\ ss_ret' = Returned("BadMessage")
              /\ UNCHANGED <<directory_status, ss_listed>>
       ELSE IF directory_status[h.id] = "Read"
         THEN /\ ss_ret' = Returned("Eof")
              /\ UNCHANGED <<directory_status, ss_listed>>
       ELSE /\ directory_status' = [directory_status EXCEPT ![h.id] = "Read"]
            /\ ss_listed' = [ss_listed EXCEPT ![h.id] =
                                 IF @ = "failed" \/ ~list_ok THEN "failed" ELSE "listed"]
            /\ ss_ret' = IF list_ok
                           THEN [Returned("Ok") EXCEPT !.files = list_directory(h.id)]
                           ELSE Returned("Failure")
    /\ UNCHANGED file_status

\* open refuses an existing file under these flags
OpenRefuses_Never(flags, exists) == FALSE

OpenRefuses(flags, exists) == "CREATE" \in flags /\ "EXCLUDE" \in flags /\ exists

\* open(id, path, open_flags, attrs)
Open(p, flags, home_found, dir_db, file_db) ==
    /\ SessionFrame
    /\ ss_req' = [NoReq EXCEPT !.op = "open", !.path = p, !.flags = flags,
                               !.home_found = home_found, !.dir_db = dir_db,
                               !.file_db = file_db]
    /\ LET h == HandleFromPath[<<p, home_found, dir_db, file_db>>]
           exists == h.ok /\ h.handle.kind = "f"
       IN IF ~h.ok /\ h.err # "NoSuchFile"
            THEN /\ ss_ret' = Returned("Failure")
                 /\ UNCHANGED file_status
          ELSE IF OpenRefuses(flags, exists) \/ ~exists
            THEN /\ ss_ret' = Returned("Failure")
                 /\ UNCHANGED file_status
          ELSE /\ file_status' = [file_status EXCEPT ![h.handle.id] =
                                      IF "APPEND" \in flags THEN "append" ELSE "plain"]
               /\ ss_ret' = [Returned("Ok") EXCEPT !.handle = h.handle]
    /\ UNCHANGED <<directory_status, ss_listed>>

\* the end of the range read returns: data.truncate(len) after split_off
ReadEnd_NoTruncate(offset, len, size) == size

ReadEnd(offset, len, size) == IF len <= size - offset THEN offset + len ELSE size

\* read(id, handle, offset, len): the whole blob is fetched and sliced
Read(h, offset, len, got) ==
    /\ ReadFrame
    /\ rd_req' = [op |-> "read", handle |-> h, offset |-> offset, len |-> len,
                  got |-> got]
    /\ rd_ret' = IF h.kind # "f" THEN Returned("BadMessage")
                 ELSE IF ~got.ok THEN Returned("Failure")
                 ELSE IF offset >= Len(got.data) THEN Returned("Eof")
                 ELSE [Returned("Ok") EXCEPT !.data =
                          SubSeq(got.data, offset + 1,
                                 ReadEnd(offset, len, Len(got.data)))]

\* what close leaves in a status map for the handle it closed
StatusAfterClose_Keep(status) == status

StatusAfterClose(status) == "none"

\* close(id, handle)
Close(h) ==
    /\ SessionFrame
    /\ ss_req' = [NoReq EXCEPT !.op = "close", !.handle = h]
    /\ IF h.kind = "f" /\ file_status[h.id] # "none"
         THEN /\ file_status' = [file_status EXCEPT ![h.id] = StatusAfterClose(@)]
              /\ ss_ret' = Returned("Ok")
              /\ UNCHANGED <<directory_status, ss_listed>>
       ELSE IF h.kind = "d" /\ directory_status[h.id] # "none"
         THEN /\ directory_status' = [directory_status EXCEPT ![h.id] = StatusAfterClose(@)]
              /\ ss_listed' = [ss_listed EXCEPT ![h.id] = "none"]
              /\ ss_ret' = Returned("Ok")
              /\ UNCHANGED file_status
       ELSE /\ ss_ret' = IF h.kind \in {"f", "d"} THEN Returned("Failure")
                         ELSE Returned("BadMessage")
            /\ UNCHANGED <<directory_status, file_status, ss_listed>>

\* a session that lists directories, and opens files while the database
\* answers
NextSession ==
    \/ \E p \in SessionPaths, home_found \in BOOLEAN, dir_db, file_db \in DbOutcomes :
          Opendir(p, home_found, dir_db, file_db)
    \/ \E h \in SessionHandles, list_ok \in BOOLEAN : Readdir(h, list_ok)
    \/ \E p \in SessionPaths, flags \in {{}, {"APPEND"}} : Open(p, flags, TRUE, "ok", "ok")
    \/ \E h \in SessionHandles : Close(h)

SpecSession == Init /\ [][NextSession]_vars

\* a session that resolves paths and opens files under every set of flags
\* and every outcome of the queries
NextOpen ==
    \/ \E p \in SessionPaths, home_found \in BOOLEAN, dir_db, file_db \in DbOutcomes :
          Stat(p, home_found, dir_db, file_db)
    \/ \E p \in SessionPaths, flags \in OpenFlagSets, home_found \in BOOLEAN,
          dir_db, file_db \in DbOutcomes : Open(p, flags, home_found, dir_db, file_db)
    \/ \E h \in SessionHandles : Close(h)

SpecOpen == Init /\ [][NextOpen]_vars

NextRead ==
    \E h \in SessionHandles, offset, len \in Ranges, got \in GetFileOutcomes :
        Read(h, offset, len, got)

SpecRead == Init /\ [][NextRead]_vars

\* C21: between an opendir of a directory and the close of its handle, the
\* first readdir on the handle returns all entries of the directory and
\* every later readdir on it returns Eof (no listing having failed).
C21_ReaddirOnceThenEof ==
    [][(/\ ss_req'.op = "readdir"
        /\ ss_req'.handle.kind = "d"
        /\ directory_status[ss_req'.handle.id] # "none"
        /\ ss_listed[ss_req'.handle.id] # "failed"
        /\ ss_req'.list_ok) =>
          IF ss_listed[ss_req'.handle.id] = "none"
            THEN ss_ret' = [Returned("Ok") EXCEPT
                               !.files = list_directory(ss_req'.handle.id)]
            ELSE ss_ret' = Returned("Eof")]_vars

\* C22: close on a handle whose state is recorded removes that state, and
\* nothing else, and returns Ok; close on a directory or file handle with no
\* recorded state returns Failure and leaves the session's state as it was.
C22_CloseRemovesState ==
    [][(ss_req'.op = "close" /\ ss_req'.handle.kind \in {"d", "f"}) =>
          LET h == ss_req'.handle
          IN IF h.kind = "d" /\ directory_status[h.id] # "none"
               THEN /\ ss_ret'.code = "Ok"
                    /\ directory_status' = [directory_status EXCEPT ![h.id] = "none"]
                    /\ file_status' = file_status
             ELSE IF h.kind = "f" /\ file_status[h.id] # "none"
               THEN /\ ss_ret'.code = "Ok"
                    /\ file_status' = [file_status EXCEPT ![h.id] = "none"]
                    /\ directory_status' = directory_status
             ELSE /\ ss_ret'.code = "Failure"
                  /\ directory_status' = directory_status
                  /\ file_status' = file_status]_vars

\* C22 witness: the handle of an open file was closed with Ok, its state is
\* gone, and a directory that had been listed is still recorded as Read
C22_Witness ==
    /\ ss_req.op = "close"
    /\ ss_req.handle = Handle("f", 2)
    /\ ss_ret.code = "Ok"
    /\ file_status[2] = "none"
    /\ directory_status[3] = "Read"

\* what the tables hold at the path of a request: the directory lookup
\* finds a directory; no directory has the path; no file has it
DirectoryFound(req) ==
    LET a == absolutize_path(req.path, req.home_found)
    IN a.ok /\ req.dir_db = "ok" /\ directory_id_for_path(a.path, a.base).ok
NoDirectoryAt(req) ==
    LET a == absolutize_path(req.path, req.home_found)
    IN a.ok /\ ~directory_id_for_path(a.path, a.base).ok
NoFileAt(req) ==
    LET a == absolutize_path(req.path, req.home_found)
    IN a.ok /\ ~file_uuid_for_path(a.path, a.base).ok

\* C23: resolution tries the path as a file only when the directory lookup
\* misses: a path that names a directory gives the directory, also when a
\* file shares the name; a file is given only where no directory has the
\* path, and NoSuchFile only where neither a directory nor a file has it.
C23_DirectoryFirst ==
    ss_req.op = "stat" =>
        /\ DirectoryFound(ss_req) => ss_ret.code = "Ok" /\ ss_ret.handle.kind = "d"
        /\ (ss_ret.code = "Ok" /\ ss_ret.handle.kind = "f") => NoDirectoryAt(ss_req)
        /\ ss_ret.code = "NoSuchFile" => NoDirectoryAt(ss_req) /\ NoFileAt(ss_req)

\* the UUID of the file a path names (0: none): no directory has the name
\* and the row of the file is there
FileNamed(req) ==
    LET a == absolutize_path(req.path, req.home_found)
        f == file_uuid_for_path(a.path, a.base)
    IN IF a.ok /\ ~directory_id_for_path(a.path, a.base).ok /\ f.ok THEN f.uuid ELSE 0

\* the row of a file is at the path, whatever else has the name
FileRowAt(req) ==
    LET a == absolutize_path(req.path, req.home_found)
        f == file_uuid_for_path(a.path, a.base)
    IN IF a.ok /\ f.ok THEN f.uuid ELSE 0

DatabaseAnswers(req) == req.home_found /\ req.dir_db = "ok" /\ req.file_db = "ok"

\* C24: open returns a file handle only for an existing file, and records
\* it; with CREATE and EXCLUDE on an existing file it returns Failure, with
\* CREATE without EXCLUDE it opens that file's UUID, on a missing file it
\* returns Failure with and without CREATE; a failed open records nothing.
C24_OpenOnlyExisting ==
    [][ss_req'.op = "open" =>
          LET req == ss_req'
              ret == ss_ret'
          IN /\ ret.code = "Ok" =>
                   /\ ret.handle.kind = "f"
                   /\ ret.handle.id # 0
                   /\ ret.handle.id = FileRowAt(req)
                   /\ file_status'[ret.handle.id] # "none"
             /\ (DatabaseAnswers(req) /\ FileNamed(req) # 0 /\ "CREATE" \in req.flags) =>
                   IF "EXCLUDE" \in req.flags
                     THEN ret.code = "Failure"
                     ELSE ret.code = "Ok" /\ ret.handle = Handle("f", FileNamed(req))
             /\ FileRowAt(req) = 0 => ret.code = "Failure"
             /\ ret.code # "Ok" => ret.code = "Failure" /\ file_status' = file_status]_vars

\* C24 witness: open with CREATE alone on the existing file b returned the
\* handle of its UUID and recorded it
C24_Witness ==
    /\ ss_req.op = "open"
    /\ ss_req.path = <<"b">>
    /\ ss_req.flags = {"CREATE"}
    /\ ss_ret = [Returned("Ok") EXCEPT !.handle = Handle("f", 2)]
    /\ file_status[2] = "plain"

\* C25: read returns the bytes of the blob in [offset, min(offset + len,
\* size)) when offset < size, and Eof when offset >= size.
C25_ReadSlice ==
    (rd_req.op = "read" /\ rd_req.handle.kind = "f" /\ rd_req.got.ok) =>
        LET data == rd_req.got.data
            offset == rd_req.offset
            end == IF offset + rd_req.len < Len(data) THEN offset + rd_req.len
                   ELSE Len(data)
        IN IF offset >= Len(data) THEN rd_ret = Returned("Eof")
           ELSE /\ rd_ret.code = "Ok"
                /\ Len(rd_ret.data) = end - offset
                /\ \A i \in 1..(end - offset) : rd_ret.data[i] = data[offset + i]

\* C25 witness: a read from inside the blob that stops before its end
C25_Witness ==
    /\ rd_req.op = "read"
    /\ rd_req.got.ok
    /\ rd_req.offset = 1
    /\ rd_req.len = 1
    /\ Len(rd_req.got.data) = MaxBlob
    /\ rd_ret.code = "Ok"
    /\ Len(rd_ret.data) = 1

(***************************************************************************)
(* Claims about the storage-node link.                                     *)
(***************************************************************************)

\* C2: a communicate call that returns Ok(m) returns a message the peer sent
\* carrying the MessageID this call put on its own request: no reply reaches
\* a call whose request carried a different ID.
C2_ReplyMatchesId ==
    \A c \in Calls :
        /\ c_slot[c].st = "full" => c_slot[c].id = c_id[c]
        /\ c_result[c].kind = "Ok" =>
              /\ c_result[c].id = c_id[c]
              /\ c_result[c].for # 0 => c_id[c_result[c].for] = c_id[c]

\* C2 witness: replies out of order: a later call has returned the reply to
\* its own request while an earlier call still awaits its reply
C2_Witness ==
    \E c1, c2 \in Calls :
        /\ c1 < c2
        /\ c_pc[c1] = "awaiting" /\ c_slot[c1].st = "empty"
        /\ c_result[c2].kind = "Ok" /\ c_result[c2].for = c2

\* C3: every call that was awaiting its reply when the receive task hit the
\* decode error has its one-shot closed once the error branch has run, and
\* what it returns is ClientDisconnected.
C3_AwaitersFail ==
    \A c \in awaiting_at_error :
        /\ (is_disconnected /\ c_pc[c] = "awaiting") => c_slot[c].st = "closed"
        /\ c_pc[c] = "done" => c_result[c].kind = "ClientDisconnected"

\* C3 witness: two calls were awaiting at the decode error and one of them
\* has returned ClientDisconnected
C3_Witness ==
    \E c1, c2 \in awaiting_at_error :
        /\ c1 # c2
        /\ c_pc[c1] = "done" /\ c_result[c1].kind = "ClientDisconnected"

\* C4 (as claimed): a call started after is_disconnected was set fails with
\* ClientDisconnected and never awaits a one-shot that nobody will complete.
C4_LateCallsFail ==
    \A c \in Calls :
        c_after_disc[c] =>
            /\ c_pc[c] = "awaiting" => c_slot[c].st = "closed"
            /\ c_pc[c] = "done" => c_result[c].kind = "ClientDisconnected"

\* C5: the disconnect signal has fired exactly once when the receive task is
\* past its first decode error, and not at all before.
C5_FiresOnce ==
    disconnect_fired = (IF recv_pc \in {"err_lock", "exited"} THEN 1 ELSE 0)

\* C5 witness: the signal has fired, the receive task has exited and a call
\* made before the error has returned its reply
C5_Witness ==
    /\ disconnect_fired = 1
    /\ recv_pc = "exited"
    /\ \E c \in Calls : c_result[c].kind = "Ok"

\* C6 (as claimed): whenever communicate is about to install its one-shot,
\* the MessageID it installs (the current next_message_id) is no key of the
\* pending table.
C6_InstallsFreshId ==
    (/\ \E c \in Calls : MayStart(c)
     /\ inner_lock = 0
     /\ LoopEnds(next_message_id, waiting_responses))
        => next_message_id \notin DOMAIN waiting_responses

\* C26: a communicate call whose peer sends no reply and does not close the
\* connection still returns: after the link's timeout it fails with
\* ClientDisconnected instead of waiting forever. (Runs in which the stream
\* breaks, the receive task meets a frame it cannot decode or a call never
\* leaves the ID loop are left out.)
C26_CommunicateReturns ==
    \/ <>(stream = "broken")
    \/ <>(disconnect_fired > 0)
    \/ <>(\E c \in Calls : c_pc[c] = "spinning")
    \/ \A c \in Calls : (c_pc[c] = "awaiting") ~> (c_pc[c] # "awaiting")

\* C32: the pending-table entry of a call cancelled after it sent its
\* request stays under the call's ID until the receive task removes it, for
\* the peer's reply with that ID or in the teardown of the link; meanwhile
\* the ID is installed for no other call, and the reply to the cancelled
\* call's request is put in no other call's one-shot.
C32_CancelledEntryKept ==
    [][\A c \in Calls :
          c_pc[c] = "cancelled" =>
            /\ (c_id[c] \in DOMAIN waiting_responses /\ waiting_responses[c_id[c]] = c) =>
                  \/ /\ c_id[c] \in DOMAIN waiting_responses'
                     /\ waiting_responses'[c_id[c]] = c
                  \/ /\ c_id[c] \notin DOMAIN waiting_responses'
                     /\ \/ recv_pc = "got" /\ recv_msg.id = c_id[c]
                        \/ recv_pc = "err_lock"
            /\ \A d \in Calls \ {c} :
                  ~(c_slot'[d].st = "full" /\ c_slot'[d].for = c)]_vars

\* C39: when write_message fails, communicate returns ClientDisconnected
\* and the one-shot it installed under its ID is no longer in the pending
\* table.
C39_FailedWriteLeavesNoEntry ==
    [][\A c \in Calls :
          (c_pc[c] = "writing" /\ c_pc'[c] = "done") =>
              /\ c_result'[c].kind = "ClientDisconnected"
              /\ ~(/\ c_id[c] \in DOMAIN waiting_responses'
                   /\ waiting_responses'[c_id[c]] = c)]_vars

\* C30: when the disconnect signal fires, is_disconnected has been set and
\* the pending one-shots have been dropped: in the state a woken watcher
\* finds, the link is marked disconnected and its pending table is empty.
C30_SignalAfterTeardown ==
    [][disconnect_fired' # disconnect_fired =>
          /\ is_disconnected'
          /\ DOMAIN waiting_responses' = {}]_vars

(***************************************************************************)
(* Claims about the front node.                                            *)
(***************************************************************************)

DeadInMap(n) == n \in active_connections /\ link_state[n] = "dead"

\* C7: after the link to a configured storage node disconnects, the
\* connection manager redials the node and replaces the map entry, so the
\* dead link does not stay in the active map forever.
C7_DeadLinkReplaced == \A n \in Nodes : DeadInMap(n) ~> ~DeadInMap(n)

UploadRow(o) == [node |-> o_node[o], uuid |-> o_uuid[o]]
UploadReturnedOk(o) ==
    o_kind[o] = "upload" /\ o_pc[o] = "done" /\ o_result[o].kind = "Ok"

\* C8: a files row written by upload_file exists only after the chosen node
\* has replied Ack to WriteFile for that UUID, and names the node the bytes
\* were sent to; an upload whose communicate failed or whose reply was not
\* Ack has inserted no row.
C8_RowOnlyAfterAck ==
    /\ \A r \in files_db : r.uuid # 0 => r \in acked /\ r \in sent_to
    /\ \A o \in Ops : o_kind[o] = "upload" =>
          IF UploadReturnedOk(o)
            THEN \A r \in files_db : r.uuid = o_uuid[o] => r = UploadRow(o)
            ELSE \A r \in files_db : r.uuid # o_uuid[o]

\* C8 witness: one upload has returned its UUID with its row in files, and
\* another has got a reply that is not Ack and returned without a row.
C8_Witness ==
    \E o, p \in Ops :
        /\ UploadReturnedOk(o) /\ UploadRow(o) \in files_db
        /\ o_kind[p] = "upload" /\ o_pc[p] = "done"
        /\ o_result[p].kind = "UnexpectedResponse"
        /\ UploadRow(p) \in sent_to

GetAfterUploadOn(g) ==
    /\ o_kind[g] = "get" /\ o_pc[g] = "done" /\ o_after_upload[g]
    /\ o_node[g] \in Nodes
    /\ peer_kind[o_node[g]] = "bnuystore"
    /\ link_state[o_node[g]] = "up"

\* C9: a get_file(u) called after upload_file returned u, served by this
\* repository's storage node over a link that is still connected, returns
\* exactly the bytes that were uploaded.
C9_GetReturnsUploaded ==
    \A g \in Ops : GetAfterUploadOn(g) =>
        \E p \in Ops : /\ UploadReturnedOk(p)
                       /\ o_uuid[p] = o_uuid[g]
                       /\ o_result[g] = Msg("Ok", o_result[p].data)

\* C9 witness: such a get_file has returned the two bytes of the upload.
C9_Witness ==
    \E g \in Ops : GetAfterUploadOn(g) /\ o_result[g] = Msg("Ok", <<2, 1>>)

GetReturns(o) == o_kind'[o] = "get" /\ o_pc[o] # "done" /\ o_pc'[o] = "done"
NothingSent(o) == ~o_sent'[o] /\ inbox' = inbox

\* C10: get_file(u) returns UnknownUUID when files joined with nodes has no
\* row for u, NotConnectedToNode when the row's node is not in the active
\* map, the bytes of the reply when the reply is FileContents, and
\* UnexpectedResponse for every other reply kind; in the first two cases no
\* request is sent.
C10_GetFileOutcomes ==
    [][\A o \in Ops :
        /\ (o_pc[o] = "idle" /\ o_kind'[o] = "get" /\ FileRows(o_uuid'[o]) = {}) =>
              /\ GetReturns(o) /\ NothingSent(o)
              /\ o_result'[o].kind = "UnknownUUID"
        /\ (o_pc[o] = "idle" /\ o_kind'[o] = "get" /\ FileRows(o_uuid'[o]) # {}
            /\ RowNode(o_uuid'[o]) \notin active_connections) =>
              /\ GetReturns(o) /\ NothingSent(o)
              /\ o_result'[o].kind = "NotConnectedToNode"
        /\ (o_pc[o] = "get_wait" /\ GetReturns(o)) =>
              CASE o_reply[o].kind = "FileContents" ->
                      o_result'[o] = Msg("Ok", o_reply[o].data)
                [] o_reply[o].kind = "ClientDisconnected" ->
                      o_result'[o].kind = "ConnectionError"
                [] OTHER -> o_result'[o].kind = "UnexpectedResponse"
      ]_vars

\* C10 witness: one get_file has returned NotConnectedToNode without sending
\* and another has returned UnexpectedResponse for a reply that was not
\* FileContents.
C10_Witness ==
    \E o, p \in Ops :
        /\ o_kind[o] = "get" /\ o_pc[o] = "done" /\ ~o_sent[o]
        /\ o_result[o].kind = "NotConnectedToNode"
        /\ o_kind[p] = "get" /\ o_pc[p] = "done" /\ o_sent[p]
        /\ o_reply[p].kind \in {"Ack", "Error"}
        /\ o_result[p].kind = "UnexpectedResponse"

(***************************************************************************)
(* The write side of a link: communicate takes the mutex of the inner      *)
(* state, writes its request with write_message while it holds the guard,  *)
(* and drops the guard when the block ends, when a write fails, or when    *)
(* the call's future is dropped in the middle of a write.                  *)
(***************************************************************************)

\* Mutex::lock gives the guard only when nobody holds it
MutexFree_Always(holder) == TRUE
MutexFree(holder) == holder = NoHolder

\* let mut inner = self.inner.lock().await
WireLock(c) ==
    /\ WireFrame
    /\ wr_pc[c] = "idle"
    /\ MutexFree(wr_holder)
    /\ wr_holder' = c
    /\ wr_pc' = [wr_pc EXCEPT ![c] = "writing"]
    /\ UNCHANGED <<wr_part, wr_wire>>

\* one of the writes of write_message reaches the stream
WireWritePart(c) ==
    /\ WireFrame
    /\ wr_pc[c] = "writing"
    /\ wr_part[c] < WriteParts
    /\ wr_part' = [wr_part EXCEPT ![c] = @ + 1]
    /\ wr_wire' = Append(wr_wire, [call |-> c, part |-> wr_part[c] + 1])
    /\ UNCHANGED <<wr_holder, wr_pc>>

\* write_message returned Ok: the block ends and the guard is dropped
WireUnlock(c) ==
    /\ WireFrame
    /\ wr_pc[c] = "writing"
    /\ wr_part[c] = WriteParts
    /\ wr_holder' = IF wr_holder = c THEN NoHolder ELSE wr_holder
    /\ wr_pc' = [wr_pc EXCEPT ![c] = "done"]
    /\ UNCHANGED <<wr_part, wr_wire>>

\* a write returns an error: `?` leaves communicate and the guard is dropped
WireWriteFail(c) ==
    /\ WireFrame
    /\ wr_pc[c] = "writing"
    /\ wr_part[c] < WriteParts
    /\ wr_holder' = IF wr_holder = c THEN NoHolder ELSE wr_holder
    /\ wr_pc' = [wr_pc EXCEPT ![c] = "failed"]
    /\ UNCHANGED <<wr_part, wr_wire>>

\* the future of communicate is dropped while write_message is suspended:
\* the guard is dropped with it and the rest of the frame is never written
WireCancel(c) ==
    /\ WireFrame
    /\ wr_pc[c] = "writing"
    /\ wr_part[c] < WriteParts
    /\ wr_holder' = IF wr_holder = c THEN NoHolder ELSE wr_holder
    /\ wr_pc' = [wr_pc EXCEPT ![c] = "cancelled"]
    /\ UNCHANGED <<wr_part, wr_wire>>

\* the receive task takes the same mutex to look up a sender or to tear
\* the link down; it never writes
WireRecvLock ==
    /\ WireFrame
    /\ MutexFree(wr_holder)
    /\ wr_holder' = RecvHolder
    /\ UNCHANGED <<wr_pc, wr_part, wr_wire>>

WireRecvUnlock ==
    /\ WireFrame
    /\ wr_holder = RecvHolder
    /\ wr_holder' = NoHolder
    /\ UNCHANGED <<wr_pc, wr_part, wr_wire>>

NextWire ==
    \/ \E c \in Writers : WireLock(c)
    \/ \E c \in Writers : WireWritePart(c)
    \/ \E c \in Writers : WireUnlock(c)
    \/ \E c \in Writers : WireWriteFail(c)
    \/ \E c \in Writers : WireCancel(c)
    \/ WireRecvLock
    \/ WireRecvUnlock

SpecWire == Init /\ [][NextWire]_vars

\* C28: the parts of each message are contiguous and in order on the wire,
\* whatever the interleaving of the calls, cancelled and failed writes
\* included: between two parts of one call's message there is no part of
\* another call's message.
C28_MessageContiguous ==
    /\ \A i, k \in DOMAIN wr_wire :
          (i < k /\ wr_wire[i].call = wr_wire[k].call) =>
              \A j \in i..k : wr_wire[j].call = wr_wire[i].call
    /\ \A i \in DOMAIN wr_wire :
          IF i > 1 /\ wr_wire[i - 1].call = wr_wire[i].call
            THEN wr_wire[i].part = wr_wire[i - 1].part + 1
            ELSE wr_wire[i].part = 1

\* a call cancelled in the middle of its frame, and after its parts the
\* whole frame of another call
C28_Witness ==
    \E c, d \in Writers :
        /\ c # d
        /\ wr_pc[c] = "cancelled" /\ wr_part[c] = 2
        /\ wr_pc[d] = "done"
        /\ Len(wr_wire) = 2 + WriteParts
        /\ wr_wire[1].call = c /\ wr_wire[2].call = c
        /\ \A i \in 3..Len(wr_wire) : wr_wire[i].call = d

(***************************************************************************)
(* OwnedTask: the spawned task awaits the wrapped future, calls             *)
(* was_finished.notify_waiters() and ends; wait_until_finished tests        *)
(* handle.is_finished() and, when it is false, awaits was_finished's        *)
(* notified(). The runtime is multi-threaded: the task and the callers run  *)
(* in parallel.                                                            *)
(***************************************************************************)

\* Notify::notify_waiters wakes the Notified futures that exist at the call
\* and stores no permit for later ones
WokenBy(pcs) == [w \in Waiters |-> IF pcs[w] = "waiting" THEN "woken" ELSE pcs[w]]

\* JoinHandle::is_finished: the task has ended, by itself or by abort
is_finished(task) == task \in {"finished", "aborted"}

\* future.await is over; was_finished.notify_waiters()
TaskNotify ==
    /\ OwnedFrame
    /\ ot_task = "running"
    /\ ot_task' = "notified"
    /\ ot_pc' = WokenBy(ot_pc)
    /\ UNCHANGED ot_dropped

\* the async block of the spawned task returns and the task is marked complete
TaskExit ==
    /\ OwnedFrame
    /\ ot_task = "notified"
    /\ ot_task' = "finished"
    /\ UNCHANGED <<ot_dropped, ot_pc>>

\* wait_until_finished is called: if !self.handle.is_finished()
WaitCheck(w) ==
    /\ OwnedFrame
    /\ ~ot_dropped
    /\ ot_pc[w] = "idle"
    /\ ot_pc' = [ot_pc EXCEPT ![w] = IF is_finished(ot_task) THEN "returned" ELSE "checked"]
    /\ UNCHANGED <<ot_task, ot_dropped>>

\* self.was_finished.notified(): the Notified future exists from here on
WaitRegister(w) ==
    /\ OwnedFrame
    /\ ot_pc[w] = "checked"
    /\ ot_pc' = [ot_pc EXCEPT ![w] = "waiting"]
    /\ UNCHANGED <<ot_task, ot_dropped>>

\* the woken caller is polled and wait_until_finished returns
WaitReturn(w) ==
    /\ OwnedFrame
    /\ ot_pc[w] = "woken"
    /\ ot_pc' = [ot_pc EXCEPT ![w] = "returned"]
    /\ UNCHANGED <<ot_task, ot_dropped>>

\* a caller whose wait_until_finished returned calls it again
WaitAgain(w) ==
    /\ OwnedFrame
    /\ ~ot_dropped
    /\ ot_pc[w] = "returned"
    /\ ot_pc' = [ot_pc EXCEPT ![w] = "idle"]
    /\ UNCHANGED <<ot_task, ot_dropped>>

\* impl Drop for OwnedTask: handle.abort(), was_finished.notify_waiters().
\* wait_until_finished borrows the OwnedTask, so no call is under way
DropOwnedTask ==
    /\ OwnedFrame
    /\ ~ot_dropped
    /\ \A w \in Waiters : ot_pc[w] \in {"idle", "returned"}
    /\ ot_dropped' = TRUE
    /\ ot_task' = IF ot_task = "finished" THEN "finished" ELSE "aborted"
    /\ ot_pc' = WokenBy(ot_pc)

NextOwned ==
    \/ TaskNotify
    \/ TaskExit
    \/ \E w \in Waiters : WaitCheck(w)
    \/ \E w \in Waiters : WaitRegister(w)
    \/ \E w \in Waiters : WaitReturn(w)
    \/ \E w \in Waiters : WaitAgain(w)
    \/ DropOwnedTask

SpecOwned == Init /\ [][NextOwned]_vars

\* the runtime keeps polling the spawned task and the callers that can go
\* on; when the wrapped future ends is up to that future
FairSpecOwned ==
    /\ SpecOwned
    /\ WF_vars(TaskExit)
    /\ \A w \in Waiters : WF_vars(WaitRegister(w)) /\ WF_vars(WaitReturn(w))

\* C34: a caller inside wait_until_finished returns once the wrapped future
\* has completed, whatever the interleaving of the task's notify_waiters
\* with the caller's is_finished test and its registration on the notify.
C34_WaitReturns ==
    \A w \in Waiters :
        (ot_pc[w] \in {"checked", "waiting"} /\ ot_task # "running")
            ~> (ot_pc[w] = "returned")

(***************************************************************************)
(* The handles of one SFTP session. A handle is the string of               *)
(* Handle::Directory(dir_id) or Handle::File(uuid): every open of one file  *)
(* returns the same string, and the status maps are keyed by dir_id / uuid. *)
(* Path resolution is taken as done: the calls are given what               *)
(* handle_from_path and file_uuid_for_path found.                           *)
(***************************************************************************)

\* opendir(id, path) where the path resolves to directory d
HandleOpendir(d) ==
    /\ HandleFrame
    /\ hd_issued[Handle("d", d)] < MaxOpens
    /\ hd_directory_status' = [hd_directory_status EXCEPT ![d] = "Unread"]
    /\ hd_issued' = [hd_issued EXCEPT ![Handle("d", d)] = @ + 1]
    /\ hd_ret' = [op |-> "opendir", handle |-> Handle("d", d), code |-> "Ok"]
    /\ UNCHANGED hd_file_status

\* readdir(id, handle) on a directory handle: the first call after an
\* opendir marks the directory Read
HandleReaddir(d) ==
    /\ HandleFrame
    /\ hd_directory_status' =
          [hd_directory_status EXCEPT ![d] = IF @ = "Unread" THEN "Read" ELSE @]
    /\ hd_ret' = [op |-> "readdir", handle |-> Handle("d", d),
                  code |-> CASE hd_directory_status[d] = "none" -> "Failure"
                             [] hd_directory_status[d] = "Unread" -> "Ok"
                             [] OTHER -> "Eof"]
    /\ UNCHANGED <<hd_file_status, hd_issued>>

\* open(id, path, flags, attrs) where the path resolves to the file u
HandleOpen(u, append) ==
    /\ HandleFrame
    /\ hd_issued[Handle("f", u)] < MaxOpens
    /\ hd_file_status' = [hd_file_status EXCEPT ![u] = IF append THEN "append" ELSE "plain"]
    /\ hd_issued' = [hd_issued EXCEPT ![Handle("f", u)] = @ + 1]
    /\ hd_ret' = [op |-> "open", handle |-> Handle("f", u), code |-> "Ok"]
    /\ UNCHANGED hd_directory_status

\* close(id, handle)
HandleClose(h) ==
    /\ HandleFrame
    /\ IF h.kind = "f" /\ hd_file_status[h.id] # "none"
         THEN /\ hd_file_status' = [hd_file_status EXCEPT ![h.id] = StatusAfterClose(@)]
              /\ hd_issued' = [hd_issued EXCEPT ![h] = @ - 1]
              /\ hd_ret' = [op |-> "close", handle |-> h, code |-> "Ok"]
              /\ UNCHANGED hd_directory_status
       ELSE IF h.kind = "d" /\ hd_directory_status[h.id] # "none"
         THEN /\ hd_directory_status' =
                    [hd_directory_status EXCEPT ![h.id] = StatusAfterClose(@)]
              /\ hd_issued' = [hd_issued EXCEPT ![h] = @ - 1]
              /\ hd_ret' = [op |-> "close", handle |-> h, code |-> "Ok"]
              /\ UNCHANGED hd_file_status
       ELSE /\ hd_ret' = [op |-> "close", handle |-> h, code |-> "Failure"]
            /\ UNCHANGED <<hd_directory_status, hd_file_status, hd_issued>>

NextHandles ==
    \/ \E d \in DirectoryIds : HandleOpendir(d)
    \/ \E d \in DirectoryIds : HandleReaddir(d)
    \/ \E r \in Files, append \in BOOLEAN : HandleOpen(r.uuid, append)
    \/ \E h \in IssuedHandles : HandleClose(h)

SpecHandles == Init /\ [][NextHandles]_vars

\* C38: a close on a handle that open or opendir returned more often than
\* close has succeeded on it succeeds: k opens of one file (or opendirs of
\* one directory) are matched by k successful closes.
C38_EveryHandleCloses ==
    [][\A h \in IssuedHandles :
          (hd_ret'.op = "close" /\ hd_ret'.handle = h /\ hd_issued[h] > 0) =>
              hd_ret'.code = "Ok"]_vars

\* C31: node selection for an upload returns a node whose link is connected,
\* never one whose link has died, and fails with NotConnectedToAnyNode when
\* no node has a connected link.
C31_SelectsConnectedNode ==
    [][\A o \in Ops :
          (o_pc[o] = "up_select" /\ o_pc'[o] # "up_select") =>
              IF \E n \in active_connections : link_state[n] = "up"
                THEN o_pc'[o] = "up_wait" /\ link_state[o_node'[o]] = "up"
                ELSE o_result'[o].kind = "NotConnectedToAnyNode"]_vars

\* C33: a failed dial does not abort the startup pass: when the pass is
\* over every configured node has been dialled, the map holds exactly the
\* nodes whose dial succeeded, and the write hold is released.
C33_StartupSkipsFailedDials ==
    m_pc = "done" =>
        /\ rw_writer = "none"
        /\ \A n \in Nodes :
              /\ link_state[n] # "none"
              /\ n \in active_connections <=> link_state[n] # "refused"

\* the dial to the first node failed, the dial to the second succeeded and
\* the pass is over
C33_Witness ==
    /\ m_pc = "done"
    /\ rw_writer = "none"
    /\ link_state[1] = "refused"
    /\ link_state[2] = "up"
    /\ active_connections = {2}

\* C35: an upload_file that holds its read hold and is about to take the
\* second one in get_appropriate_node_for, with the monitor's write request
\* queued in between, goes on, and so does the writer.
C35_NestedReadProceeds ==
    \A o \in Ops :
        (o_pc[o] = "up_select" /\ rw_readers[o] > 0 /\ rw_writer = "waiting")
            ~> (o_pc[o] # "up_select" /\ rw_writer # "waiting")

\* C29: no operation holds a read hold on the connection map while it is
\* inside communicate waiting for the storage node's reply.
C29_NoHoldAcrossCommunicate ==
    \A o \in Ops : o_pc[o] \in {"up_wait", "get_wait"} => rw_readers[o] = 0

====
